---- MODULE Spec2Model ----
(***************************************************************************)
(* Token lifecycle of the SFD frontend: TokenManager (token store and      *)
(* refresh coordinator, src/unnamed/part_001), the API client              *)
(* (src/unnamed/part_000) and the OAuth2Client (src/js/oauth2-client.js),  *)
(* as one browser tab, and two tabs over one localStorage.                 *)
(*                                                                         *)
(* Values.  A JS null/undefined token, user or timer handle is 0.  Access  *)
(* tokens are the indices of JwtExp, the exp claim (seconds) each token    *)
(* carries; exp 0 is a token whose payload or exp cannot be read           *)
(* (parseJWT returns null, or !payload.exp).  Session objects are records  *)
(* [id, refreshedAt], id 0 being null.  Time is Date.now() in ms.          *)
(***************************************************************************)
EXTENDS Integers, FiniteSets, Sequences, TLC

VARIABLES
    accessToken,    \* this.accessToken
    refreshToken,   \* this.refreshToken (own data property of the instance)
    sessionData,    \* this.sessionData
    user,           \* this.user
    storage,        \* localStorage: key -> item, NoItem when the key is absent
    refreshTimer,   \* this.refreshTimer: handle of the last setTimeout, 0 = null
    timers,         \* pending timeouts of the tab: set of [id, due]
    isRefreshing,   \* this.isRefreshing
    refreshPromise, \* this.refreshPromise: id of the performTokenRefresh run, 0 = null
    perf,           \* performTokenRefresh runs in flight: set of [id, pc, sent, stale]
    calls,          \* callers of the refreshToken method: caller -> [st, promise, owner]
    now,            \* Date.now()
    last,           \* the step taken last and what it reported
    req,            \* the API.request call of the tab
    tabs,           \* two tabs over one localStorage: tab -> its TokenManager fields
    events,         \* storage events not yet handled: tab -> set of keys
    apiRefresh,     \* callers of API.refreshToken: caller -> "idle" or "fetch"
    batch,          \* the API.batch call of the tab: [st, input, results]
    oauth,          \* the OAuth2Client, its storage items and its requests in flight
    pk,             \* the PKCEHelper call made last, with what it returned
    jwt             \* the JWTUtils call made last, with what it returned

tmVars == <<accessToken, refreshToken, sessionData, user, storage, refreshTimer,
            timers, isRefreshing, refreshPromise, perf, calls>>
\* the fields of the one tab's TokenManager, without the storage it writes to
memVars == <<accessToken, refreshToken, sessionData, user, refreshTimer, timers,
             isRefreshing, refreshPromise, perf, calls>>
tabVars == <<tabs, events>>
\* what the steps of the one tab's TokenManager and API.request leave alone
others == <<tabVars, apiRefresh, batch, oauth, pk, jwt>>
vars == <<accessToken, refreshToken, sessionData, user, storage, refreshTimer,
          timers, isRefreshing, refreshPromise, perf, calls, now, last, req,
          others>>

---------------------------------------------------------------------------
\* Bounds of the model

\* clock ticks explored after the start instant
MaxTicks == 1
\* concurrent callers of the refreshToken method
MaxCallers == 2
\* nesting depth of API.request explored (the code sets no limit)
MaxDepth == 3
MaxApiCallers == 2
MaxBatch == 2
MaxFlows == 2
MaxExchanges == 2
MaxVerifierLen == 130
MaxOAuthRefreshes == 2

---------------------------------------------------------------------------
\* Values

Null == 0
\* exp claim, in seconds, of access tokens 1..3: unreadable, short-lived, long-lived
JwtExp == <<0, 250, 900>>
AccessTokens == DOMAIN JwtExp
RefreshTokens == {1, 2}
NullSession == [id |-> 0, refreshedAt |-> 0]
\* the (session, user) pairs a login or refresh response hands to setTokens
SessionUserArgs == {<<[id |-> 1, refreshedAt |-> 0], 1>>, <<NullSession, 1>>,
                    <<NullSession, Null>>}
Callers == 1..MaxCallers
NoItem == <<>>
\* Date.now() when the tab starts, and the advance of one clock tick (ms)
StartNow == 100 * 1000
TickMs == 200 * 1000

refreshBuffer == 5 * 60 * 1000

Max(a, b) == IF a >= b THEN a ELSE b

\* JSON.stringify / JSON.parse of the stored objects
JSONstringifySession(s) == <<"{", "id", s.id, "refreshedAt", s.refreshedAt, "}">>
JSONparseSession(t) == IF t = NoItem THEN NullSession
                       ELSE [id |-> t[3], refreshedAt |-> t[5]]
JSONstringifyUser(u) == <<"{", "id", u, "}">>
JSONparseUser(t) == IF t = NoItem THEN Null ELSE t[3]
\* a token string as stored / read back (getItem gives null for a missing key)
StoreString(t) == <<t>>
ReadString(t) == IF t = NoItem THEN Null ELSE t[1]

EmptyStorage == [accessToken |-> NoItem, refreshToken |-> NoItem,
                 sessionData |-> NoItem, userData |-> NoItem]

\* the record of a step: its name, what it reported, its arguments (or the
\* response it handled), and the outcomes it delivered to refreshToken callers
NoArgs == <<>>
Last(op, res, args, delivered) ==
    [op |-> op, res |-> res, args |-> args, delivered |-> delivered]

IdleReq == [pc |-> "idle", auth |-> FALSE, depth |-> 0, bearer |-> Null,
            rejected |-> Null, fetches |-> 0, refreshes |-> 0, got401 |-> 0,
            out |-> "none", caller |-> "none"]

---------------------------------------------------------------------------
\* Token store

\* saveToStorage: writes each field only when it is truthy
saveToStorage(st, a, r, s, u) ==
    [accessToken  |-> IF a # Null THEN StoreString(a) ELSE st.accessToken,
     refreshToken |-> IF r # Null THEN StoreString(r) ELSE st.refreshToken,
     sessionData  |-> IF s # NullSession THEN JSONstringifySession(s) ELSE st.sessionData,
     userData     |-> IF u # Null THEN JSONstringifyUser(u) ELSE st.userData]

clearFromStorage == EmptyStorage

\* getTokenExpirationInfo: null (FALSE here) without a token or a readable exp
HasExpInfo(a) == a # Null /\ JwtExp[a] # 0
timeUntilExpiry(a) == JwtExp[a] - (now \div 1000)
isExpired(a) == timeUntilExpiry(a) <= 0

needsRefresh(a) ==
    IF ~HasExpInfo(a) \/ isExpired(a) THEN TRUE
    ELSE timeUntilExpiry(a) <= refreshBuffer \div 1000

\* faulty variant: the user is not looked at
isAuthenticated_AccessOnly == accessToken # Null

isAuthenticated == accessToken # Null /\ user # Null

\* faulty variant: the timeout is left pending
clearRefreshTimer_Keep(h, ts) == ts

\* clearRefreshTimer: the pending timeouts left once the handle is cleared
clearRefreshTimer(h, ts) == IF h # Null THEN {t \in ts : t.id # h} ELSE ts

FreshTimerId(ts) == CHOOSE i \in 1..(Cardinality(ts) + 1) : \A t \in ts : t.id # i

timeUntilRefresh(a) == Max(1000, (JwtExp[a] * 1000 - now) - refreshBuffer)

\* faulty variant: the previous timeout is not cancelled before scheduling
scheduleRefreshCheck_NoCancel(a, h, ts) ==
    IF a = Null \/ ~HasExpInfo(a) \/ isExpired(a)
    THEN [handle |-> Null, timers |-> ts]
    ELSE LET id == FreshTimerId(ts) IN
         [handle |-> id,
          timers |-> ts \cup {[id |-> id, due |-> now + timeUntilRefresh(a)]}]

\* scheduleRefreshCheck for access token a: [handle, timers] afterwards
scheduleRefreshCheck(a, h, ts) ==
    LET cleared == clearRefreshTimer(h, ts) IN
    IF a = Null \/ ~HasExpInfo(a) \/ isExpired(a)
    THEN [handle |-> Null, timers |-> cleared]
    ELSE LET id == FreshTimerId(cleared) IN
         [handle |-> id,
          timers |-> cleared \cup {[id |-> id, due |-> now + timeUntilRefresh(a)]}]

\* every performTokenRefresh run in flight when the store is written becomes stale
MarkStale == {[p EXCEPT !.stale = TRUE] : p \in perf}

\* the assignments of clearTokens (also run by a failed refresh)
ClearTokensEffect ==
    /\ accessToken' = Null
    /\ refreshToken' = Null
    /\ sessionData' = NullSession
    /\ user' = Null
    /\ storage' = clearFromStorage
    /\ timers' = clearRefreshTimer(refreshTimer, timers)
    /\ refreshTimer' = Null

\* the assignments of setTokens (also run by API.login and API.refreshToken)
SetTokensEffect(a, r, s, u) ==
    LET sch == scheduleRefreshCheck(a, refreshTimer, timers) IN
    /\ accessToken' = a
    /\ refreshToken' = r
    /\ sessionData' = s
    /\ user' = u
    /\ storage' = saveToStorage(storage, a, r, s, u)
    /\ refreshTimer' = sch.handle
    /\ timers' = sch.timers

setTokens(a, r, s, u) ==
    /\ SetTokensEffect(a, r, s, u)
    /\ perf' = MarkStale
    /\ last' = Last("setTokens", "ok", <<a, r, s, u>>, {})
    /\ UNCHANGED <<isRefreshing, refreshPromise, calls, now, req, others>>

clearTokens ==
    /\ ClearTokensEffect
    /\ perf' = MarkStale
    /\ last' = Last("clearTokens", "ok", NoArgs, {})
    /\ UNCHANGED <<isRefreshing, refreshPromise, calls, now, req, others>>

\* destroy: clearRefreshTimer, then clearTokens.  The step records whether a
\* token and a pending timeout were there before.
destroy ==
    /\ accessToken' = Null
    /\ refreshToken' = Null
    /\ sessionData' = NullSession
    /\ user' = Null
    /\ storage' = clearFromStorage
    /\ LET ts == clearRefreshTimer(refreshTimer, timers) IN
       timers' = clearRefreshTimer(Null, ts)
    /\ refreshTimer' = Null
    /\ perf' = MarkStale
    /\ last' = Last("destroy", "ok", <<accessToken # Null /\ timers # {}>>, {})
    /\ UNCHANGED <<isRefreshing, refreshPromise, calls, now, req, others>>

\* loadTokensFromStorage: the four fields as read from durable storage
loadTokensFromStorage(st) ==
    [accessToken  |-> ReadString(st.accessToken),
     refreshToken |-> ReadString(st.refreshToken),
     sessionData  |-> JSONparseSession(st.sessionData),
     user         |-> JSONparseUser(st.userData)]

\* The page is loaded again: a new TokenManager is constructed over the durable
\* storage as it is (constructor, init).  Timers, requests and callers of the
\* page before are gone with it.
Reload ==
    LET m == loadTokensFromStorage(storage)
        sch == scheduleRefreshCheck(m.accessToken, Null, {})
    IN
    /\ accessToken' = m.accessToken
    /\ refreshToken' = m.refreshToken
    /\ sessionData' = m.sessionData
    /\ user' = m.user
    /\ refreshTimer' = sch.handle
    /\ timers' = sch.timers
    /\ isRefreshing' = FALSE
    /\ refreshPromise' = Null
    /\ perf' = {}
    /\ calls' = [c \in Callers |-> [st |-> "idle", promise |-> Null, owner |-> FALSE]]
    /\ req' = IdleReq
    /\ last' = Last("reload", "ok", NoArgs, {})
    /\ UNCHANGED <<storage, now, others>>

Tick ==
    /\ now < StartNow + MaxTicks * TickMs
    /\ now' = now + TickMs
    /\ last' = Last("tick", "ok", NoArgs, {})
    /\ UNCHANGED <<tmVars, req, others>>

---------------------------------------------------------------------------
\* Refresh coordinator

IdleCall == [st |-> "idle", promise |-> Null, owner |-> FALSE]

\* a promise id no run in flight (hence no awaiting caller) refers to
FreshPromise == CHOOSE i \in 1..(Cardinality(perf) + 1) : \A p \in perf : p.id # i

\* faulty variant: the single-flight test is missing
RefreshInProgress_Never == FALSE

\* `if (this.isRefreshing)` at the head of the refreshToken method
RefreshInProgress == isRefreshing

\* the callers awaiting promise p
Awaiting(p) == {c \in Callers : calls[c].st = "awaiting" /\ calls[c].promise = p}

\* faulty variant: only the caller that started the run receives its outcome, a
\* joining caller reads refreshPromise after it was reset and gets nothing
Delivered_OwnerOnly(p, out) ==
    {<<c, IF calls[c].owner THEN out ELSE <<"ok", Null, Null>>>> : c \in Awaiting(p)}

\* promise p settles with `out`: what each awaiting caller receives
Delivered(p, out) == {<<c, out>> : c \in Awaiting(p)}

\* the callers of a settled promise have returned
Returned(p) == [c \in Callers |-> IF c \in Awaiting(p) THEN IdleCall ELSE calls[c]]

\* The body of the refreshToken method, run for caller c.  (The method is
\* reached as TokenManager.prototype.refreshToken: on the instance the name
\* refreshToken is the data property holding the token, see CallThisRefreshToken.)
RefreshTokenCall(c) ==
    /\ calls[c].st = "idle"
    /\ IF RefreshInProgress
       THEN /\ calls' = [calls EXCEPT ![c] =
                  [st |-> "awaiting", promise |-> refreshPromise, owner |-> FALSE]]
            /\ last' = Last("refreshToken", "joined", <<c>>, {})
            /\ UNCHANGED <<isRefreshing, refreshPromise, perf>>
       ELSE IF refreshToken = Null
       THEN /\ last' = Last("refreshToken", "noToken", <<c>>,
                            {<<c, <<"err", "No refresh token available">>>>})
            /\ UNCHANGED <<isRefreshing, refreshPromise, perf, calls>>
       ELSE LET id == FreshPromise IN
            /\ isRefreshing' = TRUE
            /\ refreshPromise' = id
            /\ perf' = perf \cup {[id |-> id, pc |-> "fetch", sent |-> refreshToken,
                                   stale |-> FALSE]}
            /\ calls' = [calls EXCEPT ![c] =
                  [st |-> "awaiting", promise |-> id, owner |-> TRUE]]
            /\ last' = Last("refreshToken", "started", <<c>>, {})
    /\ UNCHANGED <<accessToken, refreshToken, sessionData, user, storage,
                   refreshTimer, timers, now, req, others>>

\* faulty variant: the flag and the promise are not reset
RefreshFinally_Stuck ==
    /\ isRefreshing' = isRefreshing
    /\ refreshPromise' = refreshPromise

\* the `finally` of the refreshToken call that owns the run
RefreshFinally ==
    /\ isRefreshing' = FALSE
    /\ refreshPromise' = Null

\* faulty variant: the catch branch rethrows without clearing the session
RefreshFailed_NoClear(p, msg) ==
    /\ perf' = perf \ {p}
    /\ calls' = Returned(p.id)
    /\ RefreshFinally
    /\ last' = Last("refreshFailed", msg, <<p.stale>>, Delivered(p.id, <<"err", msg>>))
    /\ UNCHANGED <<accessToken, refreshToken, sessionData, user, storage,
                   refreshTimer, timers, now, req, others>>

\* performTokenRefresh, catch branch: clearTokens, then the error is rethrown
RefreshFailed(p, msg) ==
    /\ ClearTokensEffect
    /\ perf' = {[q EXCEPT !.stale = TRUE] : q \in perf \ {p}}
    /\ calls' = Returned(p.id)
    /\ RefreshFinally
    /\ last' = Last("refreshFailed", msg, <<p.stale>>, Delivered(p.id, <<"err", msg>>))
    /\ UNCHANGED <<now, req, others>>

\* performTokenRefresh, success branch (data.success && data.access_token)
RefreshSucceeded(p, at, rt) ==
    LET s == IF sessionData # NullSession
             THEN [sessionData EXCEPT !.refreshedAt = now]
             ELSE sessionData
        sch == scheduleRefreshCheck(at, refreshTimer, timers)
    IN
    /\ accessToken' = at
    /\ refreshToken' = rt
    /\ sessionData' = s
    /\ user' = user
    /\ storage' = saveToStorage(storage, at, rt, s, user)
    /\ refreshTimer' = sch.handle
    /\ timers' = sch.timers
    /\ perf' = {[q EXCEPT !.stale = TRUE] : q \in perf \ {p}}
    /\ calls' = Returned(p.id)
    /\ RefreshFinally
    /\ last' = Last("refreshOk", "ok", <<p.stale, at, rt>>,
                    Delivered(p.id, <<"ok", at, user>>))
    /\ UNCHANGED <<now, req, others>>

\* the fetch of performTokenRefresh settles: 2xx, another status, or a transport failure
FetchSettled(p, kind) ==
    /\ p \in perf
    /\ p.pc = "fetch"
    /\ IF kind = "ok"
       THEN /\ perf' = (perf \ {p}) \cup {[p EXCEPT !.pc = "json"]}
            /\ last' = Last("refreshResponse", "ok", NoArgs, {})
            /\ UNCHANGED <<accessToken, refreshToken, sessionData, user, storage,
                           refreshTimer, timers, isRefreshing, refreshPromise,
                           calls, now, req, others>>
       ELSE RefreshFailed(p, IF kind = "status" THEN "Refresh failed: status"
                                                ELSE "Failed to fetch")

\* bodies the refresh endpoint may answer with; parsed FALSE is a body response.json() rejects
RefreshBodies ==
    [parsed : {TRUE}, success : {TRUE}, access_token : AccessTokens,
     refresh_token : RefreshTokens \cup {Null}]
    \cup {[parsed |-> TRUE, success |-> FALSE, access_token |-> 2, refresh_token |-> 2],
          [parsed |-> TRUE, success |-> TRUE, access_token |-> Null, refresh_token |-> 2],
          [parsed |-> FALSE, success |-> FALSE, access_token |-> Null,
           refresh_token |-> Null]}

\* response.json() of performTokenRefresh settles with body d
JsonSettled(p, d) ==
    /\ p \in perf
    /\ p.pc = "json"
    /\ IF ~d.parsed
       THEN RefreshFailed(p, "Unexpected token")
       ELSE IF d.success /\ d.access_token # Null
       THEN RefreshSucceeded(p, d.access_token, d.refresh_token)
       ELSE RefreshFailed(p, "Refresh failed")

\* `this.refreshToken()` inside autoRefresh and forceRefresh.  The constructor
\* gives every instance an own property refreshToken (null, later the token
\* string), which shadows the prototype method of the same name: the call
\* reaches no method body and raises a TypeError.
CallThisRefreshToken == "TypeError"

\* tokenManager.refreshToken() written as a call on the instance: the name
\* resolves to the data property, no method body runs
RefreshTokenOnInstance(c) ==
    /\ calls[c].st = "idle"
    /\ last' = Last("refreshToken", CallThisRefreshToken, <<c>>,
                    {<<c, <<"err", CallThisRefreshToken>>>>})
    /\ UNCHANGED <<tmVars, now, req, others>>

\* autoRefresh: what the call reports
autoRefreshResult ==
    IF isRefreshing \/ ~needsRefresh(accessToken) THEN "skipped"
    ELSE CallThisRefreshToken

\* autoRefresh called by the page (30 s interval, visibilitychange)
autoRefresh ==
    /\ isAuthenticated
    /\ needsRefresh(accessToken)
    /\ last' = Last("autoRefresh", autoRefreshResult, NoArgs, {})
    /\ UNCHANGED <<tmVars, now, req, others>>

\* the timeout set by scheduleRefreshCheck fires and runs autoRefresh
TimerFire(t) ==
    /\ t \in timers
    /\ now >= t.due
    /\ timers' = timers \ {t}
    /\ last' = Last("timer", autoRefreshResult, NoArgs, {})
    /\ UNCHANGED <<accessToken, refreshToken, sessionData, user, storage,
                   refreshTimer, isRefreshing, refreshPromise, perf, calls, now, req,
                   others>>

\* forceRefresh: the value it resolves to (true only when refreshToken() returned)
forceRefreshResult == IF CallThisRefreshToken = "TypeError" THEN "false" ELSE "true"

forceRefresh ==
    /\ last' = Last("forceRefresh", forceRefreshResult, NoArgs, {})
    /\ UNCHANGED <<tmVars, now, req, others>>

---------------------------------------------------------------------------
\* API client (API.request and its recursion on 401)

\* faulty variant: the refresh token is not looked at
CanRefreshOn401_AccessOnly == ~req.auth /\ accessToken # Null

\* the endpoint does not start with /auth/, and an access and a refresh token are held
CanRefreshOn401 == ~req.auth /\ accessToken # Null /\ refreshToken # Null

\* handleAuthenticationFailure: clearTokens on the token manager
handleAuthenticationFailure ==
    /\ ClearTokensEffect
    /\ perf' = MarkStale

\* An error leaves the request at nesting depth d.  At depth 1 it reaches the
\* caller as it is.  Deeper, every enclosing frame awaits the nested call inside
\* its try: its catch runs handleAuthenticationFailure and throws
\* 'Authentication required' instead.
ApiThrow(err, cleared) ==
    /\ req' = [req EXCEPT !.pc = "done", !.depth = 0,
                          !.out = IF req.depth > 1 THEN "Authentication required" ELSE err]
    /\ IF req.depth > 1 \/ cleared
       THEN handleAuthenticationFailure
       ELSE UNCHANGED <<accessToken, refreshToken, sessionData, user, storage,
                        refreshTimer, timers, perf>>
    /\ UNCHANGED <<isRefreshing, refreshPromise, calls, now, others>>

HttpErrorStatuses == {403, 404, 429, 500, 503}
HttpErrorBodies == {"error", "noError", "notJson"}
ServerMessage == "message of the server"

\* the default of the switch on response.status, and the final 'Request failed'
StatusDefault(status) ==
    CASE status = 403 -> "Access forbidden"
      [] status = 404 -> "Resource not found"
      [] status = 429 -> "Rate limit exceeded"
      [] status = 500 -> "Internal server error"
      [] OTHER -> "Request failed"

\* `HTTP error! status: ${response.status}`
HttpErrorStatusText(status) ==
    CASE status = 403 -> "HTTP error! status: 403"
      [] status = 404 -> "HTTP error! status: 404"
      [] status = 429 -> "HTTP error! status: 429"
      [] status = 500 -> "HTTP error! status: 500"
      [] OTHER -> "HTTP error! status: 503"

\* errorData.error once the body has been read ("" when there is none)
ErrorDataError(status, body) ==
    CASE body = "error" -> ServerMessage
      [] body = "noError" -> ""
      [] OTHER -> HttpErrorStatusText(status)

\* the message of the Error thrown for a non-2xx, non-401 response
HttpErrorMessage(status, body) ==
    IF ErrorDataError(status, body) # "" THEN ErrorDataError(status, body)
    ELSE StatusDefault(status)

\* API.request(endpoint): the first fetch, with the bearer token held now
FirstFetch(auth) == [IdleReq EXCEPT !.pc = "fetch", !.auth = auth, !.depth = 1,
                                   !.bearer = accessToken, !.fetches = 1]

ApiRequest(auth) ==
    /\ req.pc \in {"idle", "done"}
    /\ req' = FirstFetch(auth)
    /\ last' = Last("apiRequest", "fetch", <<auth>>, {})
    /\ UNCHANGED <<tmVars, now, others>>

\* the fetch of the request settles
ApiRespond(kind) ==
    /\ req.pc = "fetch"
    /\ last' = Last("apiResponse", kind, NoArgs, {})
    /\ CASE kind = "200" ->
              /\ req' = [req EXCEPT !.pc = "done", !.depth = 0, !.out = "ok"]
              /\ UNCHANGED <<tmVars, now, others>>
         [] kind = "401" ->
              /\ req' = [req EXCEPT !.pc = "body401", !.got401 = @ + 1,
                                    !.rejected = req.bearer]
              /\ UNCHANGED <<tmVars, now, others>>
         [] OTHER -> ApiThrow("Network error: Unable to connect to server", FALSE)

\* the fetch settles with a status that is neither 2xx nor 401; the body is
\* JSON with an error field, JSON without one, or not JSON at all
ApiHttpError(status, body) ==
    /\ req.pc = "fetch"
    /\ last' = Last("apiResponse", "httpError",
                    <<status, body, req.depth, req.fetches, req.refreshes>>, {})
    /\ ApiThrow(HttpErrorMessage(status, body), FALSE)

\* what a 401 finds: an /auth/ endpoint, an access token, a refresh token, and
\* the refresh attempts of this request so far
Held401 == <<req.auth, accessToken # Null, refreshToken # Null, req.refreshes>>

\* the 401 body has been read: refresh and retry, or give up
ApiBody401 ==
    /\ req.pc = "body401"
    /\ IF CanRefreshOn401
       THEN \* await forceRefresh() (which never throws), then this.request again
            /\ req.depth < MaxDepth
            /\ req' = [req EXCEPT !.pc = "fetch", !.depth = @ + 1,
                                  !.bearer = accessToken, !.fetches = @ + 1,
                                  !.refreshes = @ + 1]
            /\ last' = Last("apiBody401", forceRefreshResult, Held401, {})
            /\ UNCHANGED <<tmVars, now, others>>
       ELSE /\ ApiThrow("Authentication failed", TRUE)
            /\ last' = Last("apiBody401", "failed", Held401, {})

---------------------------------------------------------------------------
\* Logout: API.logout (through API.request) and TokenManager.logout (its own
\* fetch).  req.caller names the logout that awaits the request.

\* faulty variant: no catch around the logout request
LogoutCatches_None == FALSE

\* the request is awaited inside try / catch (console.warn) / finally
LogoutCatches == TRUE

\* how the logout call ends when its request ended with out
LogoutEnds(out) == IF out = "ok" \/ LogoutCatches THEN "returned" ELSE "threw"

\* API.logout(): POST /auth/logout when a token is held; without one the
\* finally block runs at once
ApiLogout ==
    /\ req.pc \in {"idle", "done"}
    /\ req.caller = "none"
    /\ IF accessToken # Null \/ refreshToken # Null
       THEN /\ req' = [FirstFetch(TRUE) EXCEPT !.caller = "apiLogout"]
            /\ last' = Last("apiLogout", "fetch", NoArgs, {})
            /\ UNCHANGED <<tmVars, now, others>>
       ELSE /\ ClearTokensEffect
            /\ perf' = MarkStale
            /\ last' = Last("apiLogout", LogoutEnds("ok"), <<"none", FALSE>>, {})
            /\ UNCHANGED <<isRefreshing, refreshPromise, calls, now, req, others>>

\* the request of API.logout has returned or thrown: catch, then finally
\* window.tokenManager.clearTokens()
ApiLogoutSettled ==
    /\ req.pc = "done"
    /\ req.caller = "apiLogout"
    /\ req' = [req EXCEPT !.caller = "none"]
    /\ ClearTokensEffect
    /\ perf' = MarkStale
    /\ last' = Last("apiLogout", LogoutEnds(req.out),
                    <<req.out, accessToken # Null \/ refreshToken # Null>>, {})
    /\ UNCHANGED <<isRefreshing, refreshPromise, calls, now, others>>

\* TokenManager.logout(): fetch('/api/auth/logout') with both tokens in the body
TmLogout ==
    /\ req.pc \in {"idle", "done"}
    /\ req.caller = "none"
    /\ req' = [IdleReq EXCEPT !.pc = "logoutFetch", !.auth = TRUE, !.depth = 1,
                              !.fetches = 1, !.caller = "tmLogout"]
    /\ last' = Last("tmLogout", "fetch", NoArgs, {})
    /\ UNCHANGED <<tmVars, now, others>>

\* the fetch of TokenManager.logout settles: any response resolves it (the
\* status is not looked at), a transport failure rejects it; then finally
\* this.clearTokens()
TmLogoutSettled(kind) ==
    /\ req.pc = "logoutFetch"
    /\ req.caller = "tmLogout"
    /\ LET out == IF kind = "network" THEN "Failed to fetch" ELSE "ok" IN
       /\ req' = [req EXCEPT !.pc = "done", !.depth = 0, !.out = out, !.caller = "none"]
       /\ last' = Last("tmLogout", LogoutEnds(out),
                       <<kind, accessToken # Null \/ refreshToken # Null>>, {})
    /\ ClearTokensEffect
    /\ perf' = MarkStale
    /\ UNCHANGED <<isRefreshing, refreshPromise, calls, now, others>>

---------------------------------------------------------------------------
\* API.batch: the requests of the array one after the other, each inside try/catch

\* the arrays passed to batch: endpoints, TRUE for one under /auth/
BatchInputs == UNION {[1..n -> BOOLEAN] : n \in 0..MaxBatch}
IdleBatch == [st |-> "idle", input |-> <<>>, results |-> <<>>]

\* faulty variant: no catch around the request
BatchCatches_None == FALSE

\* the await of this.request is inside a try whose catch pushes the error
BatchCatches == TRUE

\* batch(requests): results = [], and the first request, if there is one
BatchStart(input) ==
    /\ batch.st \in {"idle", "done"}
    /\ req.pc \in {"idle", "done"}
    /\ IF input = <<>>
       THEN /\ batch' = [st |-> "done", input |-> input, results |-> <<>>]
            /\ UNCHANGED req
       ELSE /\ batch' = [st |-> "running", input |-> input, results |-> <<>>]
            /\ req' = FirstFetch(input[1])
    /\ last' = Last("batch", "start", <<Len(input)>>, {})
    /\ UNCHANGED <<tmVars, now, tabVars, apiRefresh, oauth, pk, jwt>>

\* the request awaited by batch has settled: push its result, then go on with
\* the next request or return the results
BatchCollect ==
    LET i == Len(batch.results) + 1
        entry == [success |-> req.out = "ok", out |-> req.out,
                  endpoint |-> req.auth]
    IN
    /\ batch.st = "running"
    /\ req.pc = "done"
    /\ IF req.out # "ok" /\ ~BatchCatches
       THEN /\ batch' = [batch EXCEPT !.st = "raised"]
            /\ UNCHANGED req
       ELSE IF i < Len(batch.input)
       THEN /\ batch' = [batch EXCEPT !.results = Append(@, entry)]
            /\ req' = FirstFetch(batch.input[i + 1])
       ELSE /\ batch' = [batch EXCEPT !.results = Append(@, entry), !.st = "done"]
            /\ UNCHANGED req
    /\ last' = Last("batch", "collect", <<i>>, {})
    /\ UNCHANGED <<tmVars, now, tabVars, apiRefresh, oauth, pk, jwt>>

---------------------------------------------------------------------------
\* API.refreshToken: a refresh sent through API.request('/auth/refresh')

ApiCallers == 1..MaxApiCallers

\* what the awaited request('/auth/refresh') gives: a body, or the error thrown
\* on a 401 or on another failure of the request
NoApiBody == [success |-> FALSE, access_token |-> Null, refresh_token |-> Null,
              su |-> <<NullSession, Null>>]
ApiRefreshResponses ==
    [kind : {"body"}, success : {TRUE}, access_token : {3}, refresh_token : {2, Null},
     su : {<<NullSession, Null>>, <<[id |-> 1, refreshedAt |-> 0], 1>>}]
    \cup {[kind |-> k] @@ NoApiBody : k \in {"body", "401", "error"}}

\* refresh requests on the network: those of performTokenRefresh and those of
\* API.refreshToken
RefreshRoundTrips ==
    Cardinality(perf) + Cardinality({c \in ApiCallers : apiRefresh[c] = "fetch"})

\* caller c calls api.refreshToken()
ApiRefreshTokenCall(c) ==
    /\ apiRefresh[c] = "idle"
    /\ IF refreshToken = Null
       THEN /\ last' = Last("apiRefreshToken", "noToken", <<c>>,
                            {<<c, <<"err", "No refresh token available">>>>})
            /\ UNCHANGED apiRefresh
       ELSE /\ apiRefresh' = [apiRefresh EXCEPT ![c] = "fetch"]
            /\ last' = Last("apiRefreshToken", "fetch", <<c, RefreshRoundTrips>>, {})
    /\ UNCHANGED <<tmVars, now, req, tabVars, batch, oauth, pk, jwt>>

\* the request of caller c settles and API.refreshToken runs to its end
ApiRefreshSettled(c, d) ==
    /\ apiRefresh[c] = "fetch"
    /\ apiRefresh' = [apiRefresh EXCEPT ![c] = "idle"]
    /\ CASE d.kind = "body" /\ d.success /\ d.access_token # Null ->
              /\ SetTokensEffect(d.access_token, d.refresh_token, d.su[1], d.su[2])
              /\ perf' = MarkStale
              /\ last' = Last("apiRefreshOk", "ok", <<c>>,
                              {<<c, <<"ok", d.access_token>>>>})
         [] d.kind = "401" ->
              /\ handleAuthenticationFailure
              /\ last' = Last("apiRefreshFailed", "401", <<c>>,
                              {<<c, <<"err", "Authentication failed">>>>})
         [] OTHER ->
              /\ last' = Last("apiRefreshFailed", d.kind, <<c>>,
                              {<<c, <<"err", IF d.kind = "body"
                                             THEN "Token refresh failed"
                                             ELSE "Request failed">>>>})
              /\ UNCHANGED <<accessToken, refreshToken, sessionData, user, storage,
                             refreshTimer, timers, perf>>
    /\ UNCHANGED <<isRefreshing, refreshPromise, calls, now, req, tabVars, batch,
                   oauth, pk, jwt>>

---------------------------------------------------------------------------
\* OAuth2Client (src/js/oauth2-client.js): authorization flow with PKCE.
\* The backend makes the PKCE pair: the k-th answer of /api/oauth2/authorize
\* carries code verifier, code challenge, state and nonce number k.

\* pkceData with no field set: the constructor's nulls, or {} after an exchange
NoPkce == [codeVerifier |-> Null, codeChallenge |-> Null, state |-> Null,
           nonce |-> Null]
PkceOf(k) == [codeVerifier |-> k, codeChallenge |-> k, state |-> k, nonce |-> k]

\* JSON.stringify / JSON.parse of pkceData for the item 'oauth2_pkce_data'
JSONstringifyPkce(d) ==
    <<"{", "codeVerifier", d.codeVerifier, "codeChallenge", d.codeChallenge,
      "state", d.state, "nonce", d.nonce, "}">>
JSONparsePkce(t) ==
    [codeVerifier |-> t[3], codeChallenge |-> t[5], state |-> t[7], nonce |-> t[9]]

NoTokens == [accessToken |-> Null, refreshToken |-> Null, idToken |-> Null,
             expiresAt |-> Null]
\* the token sets a token response carries (expires_in in seconds)
TokenResponses ==
    {[access_token |-> 1, refresh_token |-> 1, id_token |-> 1, expires_in |-> 3600],
     [access_token |-> 2, refresh_token |-> Null, id_token |-> 2, expires_in |-> 3600]}
\* JSON.stringify of this.tokens for the item 'oauth2_tokens'
JSONstringifyTokens(t) ==
    <<"{", "accessToken", t.accessToken, "refreshToken", t.refreshToken,
      "idToken", t.idToken, "expiresAt", t.expiresAt, "}">>

\* faulty variant: the item is left in sessionStorage
removePkceItem_Keep(item) == item

\* sessionStorage.removeItem('oauth2_pkce_data')
removePkceItem(item) == NoItem

\* a code verifier that is not the one of any challenge the backend has made
Tampered == MaxFlows + 1

\* the code verifier of d is the one its code challenge was derived from
PkceMatches(d) == d.codeVerifier # Null /\ d.codeVerifier = d.codeChallenge

NewOAuth == [pkceData |-> NoPkce,   \* this.pkceData
             pkceItem |-> NoItem,   \* sessionStorage 'oauth2_pkce_data'
             tokens |-> NoTokens,   \* this.tokens
             tokensItem |-> NoItem, \* localStorage 'oauth2_tokens'
             authorizing |-> 0,     \* authorize requests in flight
             issued |-> 0,          \* PKCE pairs the backend has made
             exchanges |-> {},      \* token requests in flight: [id, code_verifier]
             exchanged |-> 0,       \* token requests sent so far
             sent |-> [k \in 1..Tampered |-> 0],  \* token requests per code verifier
             refreshing |-> 0,      \* refresh requests in flight
             refreshed |-> 0,       \* refreshAccessToken calls so far
             api |-> [pc |-> "idle", fetches |-> 0, refreshes |-> 0,
                      out |-> "none"]]  \* the apiRequest call being served

\* startAuthorizationFlow up to its fetch: the old PKCE data is dropped
StartAuthorizationFlow ==
    /\ oauth.issued + oauth.authorizing < MaxFlows
    /\ oauth' = [oauth EXCEPT !.pkceData = NoPkce,
                              !.pkceItem = removePkceItem(@),
                              !.authorizing = @ + 1]
    /\ last' = Last("startAuthorizationFlow", "fetch", NoArgs, {})
    /\ UNCHANGED <<tmVars, now, req, tabVars, apiRefresh, batch, pk, jwt>>

\* the authorize request settles: the pair of the answer is kept in memory and
\* in sessionStorage; a failure is thrown to the caller
AuthorizeSettled(kind) ==
    /\ oauth.authorizing > 0
    /\ IF kind = "ok"
       THEN LET k == oauth.issued + 1 IN
            oauth' = [oauth EXCEPT !.authorizing = @ - 1, !.issued = k,
                                   !.pkceData = PkceOf(k),
                                   !.pkceItem = JSONstringifyPkce(PkceOf(k))]
       ELSE oauth' = [oauth EXCEPT !.authorizing = @ - 1]
    /\ last' = Last("authorizeResponse", kind, NoArgs, {})
    /\ UNCHANGED <<tmVars, now, req, tabVars, apiRefresh, batch, pk, jwt>>

\* faulty variant: the catch clears the tokens, as that of refreshAccessToken does
ExchangeCatch_Clears(o) ==
    [o EXCEPT !.tokens = NoTokens, !.tokensItem = NoItem]

\* the catch of exchangeCodeForTokens: a toast, and the error is thrown on;
\* the client is left as it is
ExchangeCatch(o) == o

\* exchangeCodeForTokens(code) up to its fetch
ExchangeCall ==
    LET d == IF oauth.pkceItem # NoItem THEN JSONparsePkce(oauth.pkceItem)
             ELSE oauth.pkceData
    IN
    /\ oauth.exchanged < MaxExchanges
    /\ IF d.state = Null \/ d.codeVerifier = Null
       THEN /\ oauth' = ExchangeCatch([oauth EXCEPT !.pkceData = d])
            /\ last' = Last("exchangeCodeForTokens", "Missing PKCE data", NoArgs, {})
       ELSE /\ oauth' = [oauth EXCEPT
                           !.pkceData = d,
                           !.exchanged = @ + 1,
                           !.exchanges = @ \cup {[id |-> oauth.exchanged + 1,
                                                  code_verifier |-> d.codeVerifier]},
                           !.sent[d.codeVerifier] = @ + 1]
            /\ last' = Last("exchangeCodeForTokens", "fetch", <<d.codeVerifier>>, {})
    /\ UNCHANGED <<tmVars, now, req, tabVars, apiRefresh, batch, pk, jwt>>

\* the token request x settles with success and the token set r
ExchangeSucceeded(x, r) ==
    LET t == [accessToken |-> r.access_token, refreshToken |-> r.refresh_token,
              idToken |-> r.id_token, expiresAt |-> now + r.expires_in * 1000]
    IN
    /\ x \in oauth.exchanges
    /\ oauth' = [oauth EXCEPT !.exchanges = @ \ {x},
                              !.tokens = t,
                              !.tokensItem = JSONstringifyTokens(t),
                              !.pkceItem = removePkceItem(@),
                              !.pkceData = NoPkce]
    /\ last' = Last("exchangeOk", "ok", <<x.code_verifier, t>>, {})
    /\ UNCHANGED <<tmVars, now, req, tabVars, apiRefresh, batch, pk, jwt>>

\* the token request x is rejected (success false) or fails (transport, body):
\* the error is thrown to the caller
ExchangeFailed(x, kind) ==
    /\ x \in oauth.exchanges
    /\ oauth' = ExchangeCatch([oauth EXCEPT !.exchanges = @ \ {x}])
    /\ last' = Last("exchangeFailed", kind, <<x.code_verifier>>, {})
    /\ UNCHANGED <<tmVars, now, req, tabVars, apiRefresh, batch, pk, jwt>>

\* the code verifier kept in sessionStorage is replaced by another one
TamperVerifier ==
    /\ oauth.pkceItem # NoItem
    /\ PkceMatches(JSONparsePkce(oauth.pkceItem))
    /\ oauth' = [oauth EXCEPT !.pkceItem =
                    JSONstringifyPkce([JSONparsePkce(@) EXCEPT !.codeVerifier = Tampered])]
    /\ last' = Last("tamper", "ok", NoArgs, {})
    /\ UNCHANGED <<tmVars, now, req, tabVars, apiRefresh, batch, pk, jwt>>

\* the token sets a refresh response carries
RefreshResponses ==
    {[access_token |-> 3, expires_in |-> 1800],
     [access_token |-> 4, expires_in |-> 60]}

\* JSON.parse of the item 'oauth2_tokens'
JSONparseTokens(t) ==
    [accessToken |-> t[3], refreshToken |-> t[5], idToken |-> t[7], expiresAt |-> t[9]]

\* isTokenExpired() of the tokens t when Date.now() is ms
isTokenExpired(t, ms) ==
    IF t.expiresAt = Null THEN TRUE ELSE ms >= t.expiresAt - 60000

\* faulty variant: the item 'oauth2_tokens' is left in localStorage
OAuthCleared_KeepItem(o) ==
    [o EXCEPT !.tokens = NoTokens, !.pkceItem = removePkceItem(@)]

\* what clearTokens() leaves of the client o
OAuthCleared(o) ==
    [o EXCEPT !.tokens = NoTokens, !.tokensItem = NoItem,
              !.pkceItem = removePkceItem(@)]

\* faulty variant: the refresh token is dropped with the old access token
RefreshedTokens_DropsRefresh(t, r, ms) ==
    [t EXCEPT !.accessToken = r.access_token,
              !.refreshToken = Null,
              !.expiresAt = ms + r.expires_in * 1000]

\* faulty variant: the expiry of the old access token is kept
RefreshedTokens_OldExpiry(t, r, ms) ==
    [t EXCEPT !.accessToken = r.access_token]

\* the two assignments of refreshAccessToken after a successful response
RefreshedTokens(t, r, ms) ==
    [t EXCEPT !.accessToken = r.access_token,
              !.expiresAt = ms + r.expires_in * 1000]

\* refreshAccessToken() up to its fetch; without a refresh token it throws
\* inside its try, whose catch clears the tokens
RefreshAccessCall ==
    /\ oauth.refreshed < MaxOAuthRefreshes
    /\ IF oauth.tokens.refreshToken = Null
       THEN /\ oauth' = [OAuthCleared(oauth) EXCEPT !.refreshed = @ + 1]
            /\ last' = Last("refreshAccessToken", "No refresh token available", NoArgs,
                            {<<0, <<"err", "No refresh token available">>>>})
       ELSE /\ oauth' = [oauth EXCEPT !.refreshed = @ + 1, !.refreshing = @ + 1]
            /\ last' = Last("refreshAccessToken", "fetch", NoArgs, {})
    /\ UNCHANGED <<tmVars, now, req, tabVars, apiRefresh, batch, pk, jwt>>

\* a refresh request settles with success and the response r
RefreshAccessSucceeded(r) ==
    LET t == RefreshedTokens(oauth.tokens, r, now) IN
    /\ oauth.refreshing > 0
    /\ oauth' = [oauth EXCEPT !.refreshing = @ - 1,
                              !.tokens = t,
                              !.tokensItem = JSONstringifyTokens(t)]
    /\ last' = Last("refreshOk", "ok", <<oauth.tokens.accessToken, r.access_token>>, {})
    /\ UNCHANGED <<tmVars, now, req, tabVars, apiRefresh, batch, pk, jwt>>

\* a refresh request is rejected or fails: clearTokens(), and the error is
\* thrown to the caller
RefreshAccessFailed(kind) ==
    /\ oauth.refreshing > 0
    /\ oauth' = [OAuthCleared(oauth) EXCEPT !.refreshing = @ - 1]
    /\ last' = Last("refreshFailed", kind, NoArgs, {<<0, <<"err", kind>>>>})
    /\ UNCHANGED <<tmVars, now, req, tabVars, apiRefresh, batch, pk, jwt>>

\* the page is loaded again: a new OAuth2Client restores the PKCE data from
\* sessionStorage and the tokens from localStorage, and clears them when they
\* are expired; the requests of the old page are gone
OAuthReload ==
    LET parsed == JSONparsePkce(oauth.pkceItem)
        d == IF oauth.pkceItem = NoItem THEN NoPkce
             ELSE IF parsed.codeVerifier # Null /\ parsed.codeChallenge # Null
                     /\ parsed.state # Null /\ parsed.nonce # Null
             THEN parsed ELSE NoPkce
        t == IF oauth.tokensItem = NoItem THEN NoTokens
             ELSE JSONparseTokens(oauth.tokensItem)
        o == [oauth EXCEPT !.pkceData = d, !.tokens = t, !.authorizing = 0,
                           !.exchanges = {}, !.refreshing = 0]
    IN
    /\ oauth' = IF oauth.tokensItem # NoItem /\ isTokenExpired(t, now)
                THEN OAuthCleared(o) ELSE o
    /\ last' = Last("oauthReload", "ok", NoArgs, {})
    /\ UNCHANGED <<tmVars, now, req, tabVars, apiRefresh, batch, pk, jwt>>

\* OAuth2Client.apiRequest(endpoint).  A response is its status; 0 stands for
\* a fetch that rejects (transport failure).
ApiStatuses == {0, 200, 401, 403, 500}
AuthenticationFailed == "Authentication failed. Please log in again."

\* faulty variant: only a 401 counts as not OK
ResponseOk_Not401(status) == status # 401

\* response.ok
ResponseOk(status) == status >= 200 /\ status <= 299

\* apiRequest up to its first await: the refresh of an expired token when a
\* refresh token is held, otherwise the fetch of the endpoint
OAuthApiRequest ==
    /\ oauth.api.pc \in {"idle", "done"}
    /\ IF isTokenExpired(oauth.tokens, now) /\ oauth.tokens.refreshToken # Null
       THEN oauth' = [oauth EXCEPT !.api = [pc |-> "preRefresh", fetches |-> 0,
                                            refreshes |-> 0, out |-> "none"]]
       ELSE oauth' = [oauth EXCEPT !.api = [pc |-> "fetch", fetches |-> 1,
                                            refreshes |-> 0, out |-> "none"]]
    /\ last' = Last("oauthApiRequest", "ok", NoArgs, {})
    /\ UNCHANGED <<tmVars, now, req, tabVars, apiRefresh, batch, pk, jwt>>

\* the refresh awaited before the fetch settles: with the response r, or with
\* a failure, which refreshAccessToken answers by clearTokens() and apiRequest
\* rethrows
OAuthApiPreRefreshSettled(ok, r) ==
    /\ oauth.api.pc = "preRefresh"
    /\ IF ok
       THEN LET t == RefreshedTokens(oauth.tokens, r, now) IN
            oauth' = [oauth EXCEPT !.tokens = t,
                                   !.tokensItem = JSONstringifyTokens(t),
                                   !.api.pc = "fetch", !.api.fetches = 1]
       ELSE oauth' = [OAuthCleared(oauth) EXCEPT !.api.pc = "done",
                                                 !.api.out = "Token refresh failed"]
    /\ last' = Last("oauthApiPreRefresh", IF ok THEN "ok" ELSE "failed", NoArgs, {})
    /\ UNCHANGED <<tmVars, now, req, tabVars, apiRefresh, batch, pk, jwt>>

\* the fetch of the endpoint settles
OAuthApiRespond(status) ==
    /\ oauth.api.pc = "fetch"
    /\ IF status = 0
       THEN oauth' = [oauth EXCEPT !.api.pc = "done", !.api.out = "Failed to fetch"]
       ELSE IF status = 401 /\ oauth.tokens.refreshToken # Null
       THEN oauth' = [oauth EXCEPT !.api.pc = "refresh401", !.api.refreshes = @ + 1]
       ELSE IF ~ResponseOk(status)
       THEN oauth' = [oauth EXCEPT !.api.pc = "done", !.api.out = "HTTP error"]
       ELSE oauth' = [oauth EXCEPT !.api.pc = "done", !.api.out = "ok"]
    /\ last' = Last("oauthApiResponse", "ok", <<status>>, {})
    /\ UNCHANGED <<tmVars, now, req, tabVars, apiRefresh, batch, pk, jwt>>

\* the refresh started on a 401 settles: with the response r and the second
\* fetch of the endpoint, or with a failure, caught by clearTokens() and the
\* authentication error
OAuthApi401RefreshSettled(ok, r) ==
    /\ oauth.api.pc = "refresh401"
    /\ IF ok
       THEN LET t == RefreshedTokens(oauth.tokens, r, now) IN
            oauth' = [oauth EXCEPT !.tokens = t,
                                   !.tokensItem = JSONstringifyTokens(t),
                                   !.api.pc = "retry", !.api.fetches = @ + 1]
       ELSE oauth' = [OAuthCleared(oauth) EXCEPT !.api.pc = "done",
                                                 !.api.out = AuthenticationFailed]
    /\ last' = Last("oauthApi401Refresh", IF ok THEN "ok" ELSE "failed", NoArgs, {})
    /\ UNCHANGED <<tmVars, now, req, tabVars, apiRefresh, batch, pk, jwt>>

\* the second fetch settles
OAuthApiRetrySettled(status) ==
    /\ oauth.api.pc = "retry"
    /\ IF status # 0 /\ ResponseOk(status)
       THEN oauth' = [oauth EXCEPT !.api.pc = "done", !.api.out = "ok"]
       ELSE oauth' = [OAuthCleared(oauth) EXCEPT !.api.pc = "done",
                                                 !.api.out = AuthenticationFailed]
    /\ last' = Last("oauthApiRetry", "ok", <<status>>, {})
    /\ UNCHANGED <<tmVars, now, req, tabVars, apiRefresh, batch, pk, jwt>>

\* OAuth2Client.clearTokens(), also what logout() does: tokens and both
\* storage items go, this.pkceData stays
OAuthClearTokens(op) ==
    /\ oauth' = [oauth EXCEPT !.tokens = NoTokens,
                              !.tokensItem = NoItem,
                              !.pkceItem = removePkceItem(@)]
    /\ last' = Last(op, "ok", NoArgs, {})
    /\ UNCHANGED <<tmVars, now, req, tabVars, apiRefresh, batch, pk, jwt>>

---------------------------------------------------------------------------
\* PKCEHelper (src/unnamed/part_002).  A JS string is the sequence of its
\* character codes; '' is <<>>.

\* this.charset: A-Z a-z 0-9 - . _ ~
charset ==
    [i \in 1..66 |-> IF i <= 26 THEN 64 + i
                     ELSE IF i <= 52 THEN 96 + (i - 26)
                     ELSE IF i <= 62 THEN 47 + (i - 52)
                     ELSE <<45, 46, 95, 126>>[i - 62]]

\* /^[A-Za-z0-9\-._~]+$/.test(str)
validCharsTest(str) ==
    /\ Len(str) >= 1
    /\ \A i \in 1..Len(str) :
          \/ str[i] >= 65 /\ str[i] <= 90
          \/ str[i] >= 97 /\ str[i] <= 122
          \/ str[i] >= 48 /\ str[i] <= 57
          \/ str[i] \in {45, 46, 95, 126}

\* faulty variant: 42 characters are let through
TooShort_By42(n) == n < 42

TooShort(n) == n < 43
TooLong(n) == n > 128

\* validateCodeVerifier(codeVerifier)
validateCodeVerifier(v) ==
    IF v = <<>>
    THEN [valid |-> FALSE, errors |-> <<"Code verifier is required">>,
          warnings |-> <<>>]
    ELSE LET len == [valid |-> ~TooShort(Len(v)) /\ ~TooLong(Len(v)),
                     errors |-> IF TooShort(Len(v))
                                THEN <<"Code verifier too short">>
                                ELSE IF TooLong(Len(v))
                                THEN <<"Code verifier too long">>
                                ELSE <<>>,
                     warnings |-> IF ~TooShort(Len(v)) /\ ~TooLong(Len(v))
                                     /\ Len(v) < 64
                                  THEN <<"Code verifier is shorter than recommended (64+ characters)">>
                                  ELSE <<>>]
         IN IF validCharsTest(v) THEN len
            ELSE [valid |-> FALSE,
                  errors |-> len.errors \o
                     <<"Code verifier contains invalid characters",
                       "Only alphanumeric, hyphen, period, underscore, and tilde are allowed">>,
                  warnings |-> len.warnings]

\* faulty variant: no upper limit on the length
LengthRefused_NoUpper(length) == length < 43

\* the guard of generateCodeVerifier
LengthRefused(length) == length < 43 \/ length > 128

\* generateCodeVerifier(length) when the random source gives the numbers rnd,
\* each in 0..255: crypto.getRandomValues (byte % charset.length), or the
\* fallback (Math.floor(Math.random() * charset.length), Math.random() being
\* byte / 256)
generateCodeVerifier(length, source, rnd) ==
    IF LengthRefused(length)
    THEN [threw |-> TRUE, value |-> <<>>]
    ELSE [threw |-> FALSE,
          value |-> [i \in 1..length |->
                        IF source = "crypto"
                        THEN charset[(rnd[i] % Len(charset)) + 1]
                        ELSE charset[((rnd[i] * Len(charset)) \div 256) + 1]]]

RECURSIVE SumTo(_, _)
SumTo(f, n) == IF n = 0 THEN 0 ELSE f[n] + SumTo(f, n - 1)

\* crypto.subtle.digest('SHA-256', data): 32 bytes that are a function of the
\* bytes of data.  A checksum stands for SHA-256.
digest(data) ==
    LET s1 == SumTo(data, Len(data))
        s2 == SumTo([i \in 1..Len(data) |-> i * data[i]], Len(data))
    IN [i \in 1..32 |-> (s1 * i + s2 + 7 * i * i + Len(data)) % 256]

\* the character btoa writes for the 6-bit value x
Base64Char(x) ==
    IF x <= 25 THEN 65 + x
    ELSE IF x <= 51 THEN 97 + (x - 26)
    ELSE IF x <= 61 THEN 48 + (x - 52)
    ELSE IF x = 62 THEN 43 ELSE 47

\* arrayBufferToBase64(buffer): btoa of the bytes, padded with '=' (61)
arrayBufferToBase64(bytes) ==
    LET groups == (Len(bytes) + 2) \div 3
        Byte(k) == IF k <= Len(bytes) THEN bytes[k] ELSE 0
        Quad(g) == LET n == Byte(3 * g - 2) * 65536 + Byte(3 * g - 1) * 256 + Byte(3 * g)
                   IN <<Base64Char(n \div 262144),
                        Base64Char((n \div 4096) % 64),
                        IF 3 * g - 1 <= Len(bytes) THEN Base64Char((n \div 64) % 64) ELSE 61,
                        IF 3 * g <= Len(bytes) THEN Base64Char(n % 64) ELSE 61>>
    IN [j \in 1..(4 * groups) |-> Quad(((j - 1) \div 4) + 1)[((j - 1) % 4) + 1]]

\* base64urlEncode: '+' to '-', '/' to '_', every '=' removed
base64urlEncode(bytes) ==
    LET b == arrayBufferToBase64(bytes)
        r == [j \in 1..Len(b) |-> IF b[j] = 43 THEN 45
                                  ELSE IF b[j] = 47 THEN 95 ELSE b[j]]
    IN SelectSeq(r, LAMBDA c : c # 61)

PkceMethods == {"S256", "plain"}

\* generateCodeChallenge(codeVerifier, method); TextEncoder gives one byte for
\* each character below 128
generateCodeChallenge(v, method) ==
    IF v = <<>> \/ method \notin PkceMethods
    THEN [threw |-> TRUE, value |-> <<>>]
    ELSE IF method = "S256"
    THEN [threw |-> FALSE, value |-> base64urlEncode(digest(v))]
    ELSE [threw |-> FALSE, value |-> v]

\* faulty variant: the method argument is not passed on
verifyCodeChallenge_DefaultMethod(v, c, method) ==
    IF v = <<>> \/ c = <<>> THEN FALSE
    ELSE LET e == generateCodeChallenge(v, "S256") IN ~e.threw /\ e.value = c

\* verifyCodeChallenge(codeVerifier, codeChallenge, method)
verifyCodeChallenge(v, c, method) ==
    IF v = <<>> \/ c = <<>> THEN FALSE
    ELSE LET e == generateCodeChallenge(v, method) IN ~e.threw /\ e.value = c

\* the strings tried: n times the character c, and the same with the first
\* or the last character replaced by d
Rep(n, c) == [i \in 1..n |-> c]
WithChar(str, at, d) == [i \in 1..Len(str) |-> IF i = at THEN d ELSE str[i]]
VerifierInputs ==
    {Rep(n, c) : n \in 0..MaxVerifierLen, c \in {65, 126}}
    \cup UNION {{WithChar(Rep(n, 65), at, d) :
                    at \in {1, n}, d \in {45, 122, 32, 43, 10, 64}} :
                n \in 1..MaxVerifierLen}
\* the numbers of the random source: n times b, or with the last replaced
RandomInputs(n) ==
    {Rep(n, b) : b \in {0, 65, 66, 255}}
    \cup (IF n = 0 THEN {} ELSE {WithChar(Rep(n, 0), n, d) : d \in {131, 200}})

IdlePk == [op |-> "idle", verifier |-> <<>>, method |-> "none", length |-> 0,
           threw |-> FALSE, challenge |-> <<>>, verified |-> FALSE,
           validation |-> [valid |-> FALSE, errors |-> <<>>, warnings |-> <<>>]]

\* validateCodeVerifier is called with v
PkceValidate(v) ==
    /\ pk.op = "idle"
    /\ pk' = [IdlePk EXCEPT !.op = "validate", !.verifier = v,
                            !.validation = validateCodeVerifier(v)]
    /\ last' = Last("validateCodeVerifier", "ok", NoArgs, {})
    /\ UNCHANGED <<tmVars, now, req, tabVars, apiRefresh, batch, oauth, jwt>>

\* a challenge is generated for v with the method, and verified against v
PkceChallenge(v, method) ==
    LET c == generateCodeChallenge(v, method) IN
    /\ pk.op = "idle"
    /\ pk' = [IdlePk EXCEPT !.op = "challenge", !.verifier = v, !.method = method,
                            !.threw = c.threw, !.challenge = c.value,
                            !.verified = IF c.threw THEN FALSE
                                         ELSE verifyCodeChallenge(v, c.value, method)]
    /\ last' = Last("generateCodeChallenge", "ok", NoArgs, {})
    /\ UNCHANGED <<tmVars, now, req, tabVars, apiRefresh, batch, oauth, jwt>>

\* generateCodeVerifier(length), and the validation generatePKCEPair makes of
\* what it returned
PkceGenerate(length, source, rnd) ==
    LET g == generateCodeVerifier(length, source, rnd) IN
    /\ pk.op = "idle"
    /\ pk' = [IdlePk EXCEPT !.op = "generate", !.length = length,
                            !.method = source,
                            !.threw = g.threw, !.verifier = g.value,
                            !.validation = IF g.threw THEN IdlePk.validation
                                           ELSE validateCodeVerifier(g.value)]
    /\ last' = Last("generateCodeVerifier", "ok", NoArgs, {})
    /\ UNCHANGED <<tmVars, now, req, tabVars, apiRefresh, batch, oauth, jwt>>

---------------------------------------------------------------------------
\* JWTUtils (src/js/jwt-utils.js).  A token is what validateJWT can tell
\* apart: nothing, not a string, a string without three parts, three parts
\* whose payload does not decode, or three parts with a payload.  The payload
\* holds each claim the validation reads: a required claim other than exp as
\* whether it is truthy, exp and nbf as seconds (0 when absent, as both are
\* falsy), role and scopes by their kind.

NoPayload == [iss |-> FALSE, sub |-> FALSE, aud |-> FALSE, iat |-> FALSE,
              exp |-> 0, nbf |-> 0, role |-> "none", scopes |-> "none",
              sessionId |-> FALSE, jti |-> FALSE]

NewResult == [valid |-> FALSE, errors |-> <<>>, warnings |-> <<>>, claims |-> NoPayload]

\* Math.floor(Date.now() / 1000)
NowSeconds(ms) == ms \div 1000

\* requiredClaims.filter(claim => !payload[claim])
missingClaims(p) ==
    SelectSeq(<<"iss", "sub", "aud", "iat", "exp">>,
              LAMBDA c : \/ c = "iss" /\ ~p.iss
                         \/ c = "sub" /\ ~p.sub
                         \/ c = "aud" /\ ~p.aud
                         \/ c = "iat" /\ ~p.iat
                         \/ c = "exp" /\ p.exp = 0)

CheckRequired(p, r) ==
    IF Len(missingClaims(p)) > 0
    THEN [r EXCEPT !.errors = Append(@, "Missing required claims")]
    ELSE r

\* faulty variant: a token expiring at this very second is let through
CheckExpiration_Late(p, ms, r) ==
    IF p.exp # 0
    THEN IF p.exp < NowSeconds(ms)
         THEN [r EXCEPT !.errors = Append(@, "Token has expired")]
         ELSE IF p.exp <= NowSeconds(ms) + 300
         THEN [r EXCEPT !.warnings = Append(@, "Token expires soon (less than 5 minutes)")]
         ELSE r
    ELSE [r EXCEPT !.errors = Append(@, "Token has no expiration claim")]

CheckExpiration(p, ms, r) ==
    IF p.exp # 0
    THEN IF p.exp <= NowSeconds(ms)
         THEN [r EXCEPT !.errors = Append(@, "Token has expired")]
         ELSE IF p.exp <= NowSeconds(ms) + 300
         THEN [r EXCEPT !.warnings = Append(@, "Token expires soon (less than 5 minutes)")]
         ELSE r
    ELSE [r EXCEPT !.errors = Append(@, "Token has no expiration claim")]

CheckNotBefore(p, ms, r) ==
    IF p.nbf # 0 /\ p.nbf > NowSeconds(ms)
    THEN [r EXCEPT !.errors = Append(@, "Token is not yet valid (nbf claim in future)")]
    ELSE r

CheckRole(p, r) ==
    IF p.role # "none" /\ p.role \notin {"admin", "customer"}
    THEN [r EXCEPT !.warnings = Append(@, "Unknown role")]
    ELSE r

CheckScopes(p, r) ==
    IF p.scopes # "none" /\ p.scopes # "array"
    THEN [r EXCEPT !.warnings = Append(@, "Scopes claim should be an array")]
    ELSE r

\* faulty variant: a missing sessionId is an error
CheckSessionId_Error(p, r) ==
    IF ~p.sessionId
    THEN [r EXCEPT !.errors = Append(@, "Token missing sessionId claim")]
    ELSE r

CheckSessionId(p, r) ==
    IF ~p.sessionId
    THEN [r EXCEPT !.warnings = Append(@, "Token missing sessionId claim")]
    ELSE r

CheckJti(p, r) ==
    IF ~p.jti
    THEN [r EXCEPT !.warnings = Append(@, "Token missing jti (JWT ID) claim")]
    ELSE r

\* validateJWT(token) when Date.now() is ms
validateJWT(token, ms) ==
    IF token.kind = "missing"
    THEN [NewResult EXCEPT !.errors = <<"Token is missing">>]
    ELSE IF token.kind = "notString"
    THEN [NewResult EXCEPT !.errors = <<"Token must be a string">>]
    ELSE IF token.kind = "notThreeParts"
    THEN [NewResult EXCEPT !.errors = <<"Token must have 3 parts (header.payload.signature)">>]
    ELSE IF token.kind = "notDecodable"
    THEN [NewResult EXCEPT !.errors = <<"Failed to parse token payload">>]
    ELSE LET p == token.payload
             r == CheckJti(p, CheckSessionId(p, CheckScopes(p, CheckRole(p,
                    CheckNotBefore(p, ms, CheckExpiration(p, ms,
                      CheckRequired(p, [NewResult EXCEPT !.claims = p])))))))
         IN [r EXCEPT !.valid = (Len(r.errors) = 0)]

\* the tokens tried when the clock shows s seconds
PayloadInputs(s) ==
    [iss : BOOLEAN, sub : {TRUE}, aud : {TRUE}, iat : BOOLEAN,
     exp : {0, 0 - 5, s - 1, s, s + 1, s + 300, s + 301},
     nbf : {0, s, s + 1},
     role : {"none", "admin", "guest"},
     scopes : {"none", "array", "string"},
     sessionId : BOOLEAN, jti : BOOLEAN]
TokenInputs(s) ==
    {[kind |-> k, payload |-> NoPayload] :
        k \in {"missing", "notString", "notThreeParts", "notDecodable"}}
    \cup {[kind |-> "jwt", payload |-> p] : p \in PayloadInputs(s)}

IdleJwt == [op |-> "idle", token |-> [kind |-> "missing", payload |-> NoPayload],
            at |-> 0, result |-> NewResult]

\* JWTUtils.validateJWT(token), called ms milliseconds into the current second
JwtValidate(token, ms) ==
    /\ jwt.op = "idle"
    /\ jwt' = [op |-> "validateJWT", token |-> token, at |-> now + ms,
               result |-> validateJWT(token, now + ms)]
    /\ last' = Last("validateJWT", "ok", NoArgs, {})
    /\ UNCHANGED <<tmVars, now, req, tabVars, apiRefresh, batch, oauth, pk>>

\* getTokenStatus(token) when Date.now() is ms: the status of the object it
\* returns.  Without a payload the status is 'invalid'.  A payload without exp
\* or iat makes timeUntilExpiry or timeSinceIssued NaN, both comparisons are
\* false, and building the timing block throws: new Date(NaN).toISOString()
\* raises a RangeError.  The result of validateJWT is carried along and has no
\* part in the status.
getTokenStatus(token, ms) ==
    LET p == token.payload
        untilExpiry == p.exp - NowSeconds(ms)
    IN IF token.kind # "jwt" THEN "invalid"
       ELSE IF p.exp = 0 \/ ~p.iat THEN "RangeError"
       ELSE IF untilExpiry <= 0 THEN "expired"
       ELSE IF untilExpiry <= 300 THEN "expiring_soon"
       ELSE "valid"

\* JWTUtils.getTokenStatus(token), called ms milliseconds into the current
\* second; result is the validation it returns, last.res the status
JwtStatus(token, ms) ==
    /\ jwt.op = "idle"
    /\ jwt' = [op |-> "getTokenStatus", token |-> token, at |-> now + ms,
               result |-> validateJWT(token, now + ms)]
    /\ last' = Last("getTokenStatus", getTokenStatus(token, now + ms), NoArgs, {})
    /\ UNCHANGED <<tmVars, now, req, tabVars, apiRefresh, batch, oauth, pk>>

---------------------------------------------------------------------------
\* Two tabs of the application over one localStorage.  Each tab has its own
\* TokenManager; a write of one tab to localStorage raises a storage event,
\* one for each key whose item changed, in every other tab.  The listener
\* reloads the whole store on an event it reacts to and does nothing on any
\* other, so events[t] holds the keys of the pending events tab t will react
\* to, each key once.

Tabs == {1, 2}

\* the TokenManager of a tab constructed over an empty localStorage
NewTab == [accessToken |-> Null, refreshToken |-> Null, sessionData |-> NullSession,
           user |-> Null, refreshTimer |-> Null, timers |-> {},
           isRefreshing |-> FALSE]

TabMemory(t) == [accessToken |-> tabs[t].accessToken,
                 refreshToken |-> tabs[t].refreshToken,
                 sessionData |-> tabs[t].sessionData,
                 user |-> tabs[t].user]

\* setupStorageListener: the keys the listener reacts to
StorageListenerLoads(key) == key = "accessToken" \/ key = "refreshToken"

\* the keys whose item differs between two contents of localStorage, among
\* those the listener reacts to
ChangedKeys(st1, st2) == {k \in DOMAIN st1 : st1[k] # st2[k] /\ StorageListenerLoads(k)}

\* the events queued in the other tabs when tab t has turned localStorage into st
Notify(t, st) ==
    [u \in Tabs |-> IF u = t THEN events[u]
                    ELSE events[u] \cup ChangedKeys(storage, st)]

\* tab t calls setTokens(a, r, s, u)
TabSetTokens(t, a, r, s, u) ==
    LET sch == scheduleRefreshCheck(a, tabs[t].refreshTimer, tabs[t].timers)
        st == saveToStorage(storage, a, r, s, u)
    IN
    /\ tabs' = [tabs EXCEPT ![t] = [@ EXCEPT !.accessToken = a, !.refreshToken = r,
                                             !.sessionData = s, !.user = u,
                                             !.refreshTimer = sch.handle,
                                             !.timers = sch.timers]]
    /\ storage' = st
    /\ events' = Notify(t, st)
    /\ last' = Last("tabSetTokens", "ok", <<t>>, {})
    /\ UNCHANGED <<memVars, now, req, apiRefresh, batch, oauth, pk, jwt>>

\* tab t calls clearTokens(); the failure branch of its refresh does the same
TabClearTokens(t, op) ==
    /\ tabs' = [tabs EXCEPT ![t] =
                  [NewTab EXCEPT !.isRefreshing =
                      IF op = "tabClearTokens" THEN tabs[t].isRefreshing ELSE FALSE,
                                 !.timers = clearRefreshTimer(tabs[t].refreshTimer,
                                                              tabs[t].timers)]]
    /\ storage' = clearFromStorage
    /\ events' = Notify(t, clearFromStorage)
    /\ last' = Last(op, "ok", <<t>>, {})
    /\ UNCHANGED <<memVars, now, req, apiRefresh, batch, oauth, pk, jwt>>

\* the refreshToken method starts performTokenRefresh in tab t
TabRefreshStart(t) ==
    /\ ~tabs[t].isRefreshing
    /\ tabs[t].refreshToken # Null
    /\ tabs' = [tabs EXCEPT ![t].isRefreshing = TRUE]
    /\ last' = Last("tabRefreshStart", "ok", <<t>>, {})
    /\ UNCHANGED <<memVars, storage, events, now, req, apiRefresh, batch, oauth, pk, jwt>>

\* performTokenRefresh of tab t, success branch, with the tokens of the response
TabRefreshSucceeded(t, at, rt) ==
    LET s == IF tabs[t].sessionData # NullSession
             THEN [tabs[t].sessionData EXCEPT !.refreshedAt = now]
             ELSE tabs[t].sessionData
        sch == scheduleRefreshCheck(at, tabs[t].refreshTimer, tabs[t].timers)
        st == saveToStorage(storage, at, rt, s, tabs[t].user)
    IN
    /\ tabs[t].isRefreshing
    /\ tabs' = [tabs EXCEPT ![t] = [@ EXCEPT !.accessToken = at, !.refreshToken = rt,
                                             !.sessionData = s,
                                             !.refreshTimer = sch.handle,
                                             !.timers = sch.timers,
                                             !.isRefreshing = FALSE]]
    /\ storage' = st
    /\ events' = Notify(t, st)
    /\ last' = Last("tabRefreshOk", "ok", <<t>>, {})
    /\ UNCHANGED <<memVars, now, req, apiRefresh, batch, oauth, pk, jwt>>

\* performTokenRefresh of tab t, catch branch
TabRefreshFailed(t) ==
    /\ tabs[t].isRefreshing
    /\ TabClearTokens(t, "tabRefreshFailed")

\* the storage listener of tab t handles the oldest event queued for it
TabStorageEventK(t, k) ==
    /\ events[t] # {}
    /\ LET m == loadTokensFromStorage(storage) IN
       tabs' = IF StorageListenerLoads(k)
               THEN [tabs EXCEPT ![t] = [@ EXCEPT !.accessToken = m.accessToken,
                                                  !.refreshToken = m.refreshToken,
                                                  !.sessionData = m.sessionData,
                                                  !.user = m.user]]
               ELSE tabs
    /\ events' = [events EXCEPT ![t] = @ \ {k}]
    /\ last' = Last("tabStorageEvent", "ok", <<t>>, {})
    /\ UNCHANGED <<memVars, storage, now, req, apiRefresh, batch, oauth, pk, jwt>>

TabStorageEvent(t) == \E k \in events[t] : TabStorageEventK(t, k)

---------------------------------------------------------------------------
Init ==
    /\ accessToken = Null
    /\ refreshToken = Null
    /\ sessionData = NullSession
    /\ user = Null
    /\ storage = EmptyStorage
    /\ refreshTimer = Null
    /\ timers = {}
    /\ isRefreshing = FALSE
    /\ refreshPromise = Null
    /\ perf = {}
    /\ calls = [c \in Callers |-> IdleCall]
    /\ now = StartNow
    /\ last = Last("init", "ok", NoArgs, {})
    /\ req = IdleReq
    /\ tabs = [t \in Tabs |-> NewTab]
    /\ events = [t \in Tabs |-> {}]
    /\ apiRefresh = [c \in ApiCallers |-> "idle"]
    /\ batch = IdleBatch
    /\ oauth = NewOAuth
    /\ pk = IdlePk
    /\ jwt = IdleJwt

Next ==
    \/ \E a \in AccessTokens, r \in RefreshTokens \cup {Null}, su \in SessionUserArgs :
          setTokens(a, r, su[1], su[2])
    \/ clearTokens
    \/ destroy
    \/ Reload
    \/ Tick
    \/ \E c \in Callers : RefreshTokenCall(c)
    \/ \E p \in perf, kind \in {"ok", "status", "transport"} : FetchSettled(p, kind)
    \/ \E p \in perf, d \in RefreshBodies : JsonSettled(p, d)
    \/ \E c \in Callers : RefreshTokenOnInstance(c)
    \/ autoRefresh
    \/ \E t \in timers : TimerFire(t)
    \/ forceRefresh

Spec == Init /\ [][Next]_vars

\* The same program when every request of performTokenRefresh is answered or
\* fails: fetch and response.json() settle their promises
SpecSettling ==
    /\ Spec
    /\ WF_vars(\E p \in perf, kind \in {"ok", "status", "transport"} : FetchSettled(p, kind))
    /\ WF_vars(\E p \in perf, d \in RefreshBodies : JsonSettled(p, d))

\* The API client over the token store: logins, logouts and one request at a time
NextApi ==
    \/ \E a \in AccessTokens, r \in RefreshTokens \cup {Null}, su \in SessionUserArgs :
          setTokens(a, r, su[1], su[2])
    \/ clearTokens
    \/ forceRefresh
    \/ \E auth \in BOOLEAN : ApiRequest(auth)
    \/ \E kind \in {"200", "401", "network"} : ApiRespond(kind)
    \/ \E status \in HttpErrorStatuses, body \in HttpErrorBodies :
          ApiHttpError(status, body)
    \/ ApiBody401

SpecApi == Init /\ [][NextApi]_vars

\* Logout through the API client and through the token manager
NextLogout ==
    \/ \E a \in AccessTokens, r \in RefreshTokens \cup {Null}, su \in SessionUserArgs :
          setTokens(a, r, su[1], su[2])
    \/ ApiLogout
    \/ \E kind \in {"200", "401", "network"} : ApiRespond(kind)
    \/ \E status \in HttpErrorStatuses, body \in HttpErrorBodies :
          ApiHttpError(status, body)
    \/ ApiBody401
    \/ ApiLogoutSettled
    \/ TmLogout
    \/ \E kind \in {"200", "401", "500", "network"} : TmLogoutSettled(kind)

SpecLogout == Init /\ [][NextLogout]_vars

\* Calls of the PKCEHelper, which keeps nothing from one call to the next: each
\* call is made on the helper as constructed
NextPkce ==
    \/ pk.op = "idle" /\ \E v \in VerifierInputs : PkceValidate(v)
    \/ pk.op = "idle" /\ \E v \in VerifierInputs, method \in PkceMethods :
                            PkceChallenge(v, method)
    \/ pk.op = "idle" /\ \E length \in 0..MaxVerifierLen, source \in {"crypto", "fallback"} :
                            \E rnd \in RandomInputs(length) : PkceGenerate(length, source, rnd)

SpecPkce == Init /\ [][NextPkce]_vars

\* Calls of JWTUtils, which keeps nothing from one call to the next
NextJwt ==
    \/ /\ jwt.op = "idle"
       /\ \E ms \in {0, 999} : \E token \in TokenInputs(NowSeconds(now + ms)) :
             JwtValidate(token, ms)
    \/ /\ jwt.op = "idle"
       /\ \E ms \in {0, 999} : \E token \in TokenInputs(NowSeconds(now + ms)) :
             JwtStatus(token, ms)

SpecJwt == Init /\ [][NextJwt]_vars

\* The OAuth2 authorization flow
NextOAuth ==
    \/ StartAuthorizationFlow
    \/ \E kind \in {"ok", "failed"} : AuthorizeSettled(kind)
    \/ ExchangeCall
    \/ \E x \in oauth.exchanges, r \in TokenResponses : ExchangeSucceeded(x, r)
    \/ \E x \in oauth.exchanges, kind \in {"rejected", "transport"} :
          ExchangeFailed(x, kind)
    \/ TamperVerifier
    \/ \E op \in {"oauthClearTokens", "oauthLogout"} : OAuthClearTokens(op)

SpecOAuth == Init /\ [][NextOAuth]_vars

\* The tokens of the OAuth2Client: exchange, refresh, clearing and reload, as
\* the clock advances
NextOAuthTokens ==
    \/ StartAuthorizationFlow
    \/ AuthorizeSettled("ok")
    \/ ExchangeCall
    \/ \E x \in oauth.exchanges, r \in TokenResponses : ExchangeSucceeded(x, r)
    \/ \E x \in oauth.exchanges : ExchangeFailed(x, "rejected")
    \/ OAuthClearTokens("oauthLogout")
    \/ RefreshAccessCall
    \/ \E r \in RefreshResponses : RefreshAccessSucceeded(r)
    \/ \E kind \in {"rejected", "transport", "parse"} : RefreshAccessFailed(kind)
    \/ OAuthReload
    \/ Tick

SpecOAuthTokens == Init /\ [][NextOAuthTokens]_vars

\* OAuth2Client.apiRequest over the tokens of the client
NextOAuthApi ==
    \/ StartAuthorizationFlow
    \/ AuthorizeSettled("ok")
    \/ ExchangeCall
    \/ \E x \in oauth.exchanges, r \in TokenResponses : ExchangeSucceeded(x, r)
    \/ OAuthClearTokens("oauthLogout")
    \/ Tick
    \/ OAuthApiRequest
    \/ \E ok \in BOOLEAN, r \in RefreshResponses : OAuthApiPreRefreshSettled(ok, r)
    \/ \E status \in ApiStatuses : OAuthApiRespond(status)
    \/ \E ok \in BOOLEAN, r \in RefreshResponses : OAuthApi401RefreshSettled(ok, r)
    \/ \E status \in ApiStatuses : OAuthApiRetrySettled(status)

SpecOAuthApi == Init /\ [][NextOAuthApi]_vars

\* API.batch over the token store
NextBatch ==
    \/ \E r \in {1, Null} : setTokens(2, r, NullSession, 1)
    \/ \E input \in BatchInputs : BatchStart(input)
    \/ \E kind \in {"200", "401", "network"} : ApiRespond(kind)
    \/ \E status \in {500}, body \in {"noError"} : ApiHttpError(status, body)
    \/ ApiBody401
    \/ BatchCollect

SpecBatch == Init /\ [][NextBatch]_vars

\* Refreshes through the TokenManager and through the API client, side by side
NextApiRefresh ==
    \/ \E a \in {2}, r \in {1, Null} : setTokens(a, r, NullSession, 1)
    \/ clearTokens
    \/ \E c \in Callers : RefreshTokenCall(c)
    \/ \E p \in perf, kind \in {"ok", "status", "transport"} : FetchSettled(p, kind)
    \/ \E p \in perf, d \in RefreshBodies : JsonSettled(p, d)
    \/ \E c \in ApiCallers : ApiRefreshTokenCall(c)
    \/ \E c \in ApiCallers, d \in ApiRefreshResponses : ApiRefreshSettled(c, d)

SpecApiRefresh == Init /\ [][NextApiRefresh]_vars

\* Two tabs over one localStorage
\* the calls of setTokens made in the tabs: a login, and a token set without
\* refresh token or session
TabArgs == {<<2, 1, [id |-> 1, refreshedAt |-> 0], 1>>, <<2, Null, NullSession, 1>>}

NextTabs ==
    \/ \E t \in Tabs, x \in TabArgs : TabSetTokens(t, x[1], x[2], x[3], x[4])
    \/ \E t \in Tabs : TabClearTokens(t, "tabClearTokens")
    \/ \E t \in Tabs : TabRefreshStart(t)
    \/ \E t \in Tabs, at \in {3}, rt \in {1, Null} : TabRefreshSucceeded(t, at, rt)
    \/ \E t \in Tabs : TabRefreshFailed(t)
    \/ \E t \in Tabs : TabStorageEvent(t)

SpecTabs == Init /\ [][NextTabs]_vars

---------------------------------------------------------------------------
\* Properties

\* memory and durable storage hold no token, session or user
StoreEmpty ==
    /\ accessToken = Null
    /\ refreshToken = Null
    /\ sessionData = NullSession
    /\ user = Null
    /\ storage = EmptyStorage

\* C1: at most one refresh request of performTokenRefresh is in flight at any
\* time, whatever the interleaving of refreshToken, autoRefresh, forceRefresh
\* calls and timer firings; a call made while one is in flight adds none.
C1_SingleFlight == Cardinality(perf) <= 1

\* a second caller has just joined the refresh in flight
C1_Witness ==
    /\ last.op = "refreshToken"
    /\ last.res = "joined"
    /\ Cardinality(perf) = 1
    /\ \E c1, c2 \in Callers :
          /\ calls[c1].st = "awaiting" /\ calls[c1].owner
          /\ calls[c2].st = "awaiting" /\ ~calls[c2].owner

C7_FailureClears ==
    last.op = "refreshFailed" => StoreEmpty /\ timers = {} /\ refreshTimer = Null

\* a refresh whose tokens were still in place has just failed
C7_Witness ==
    /\ last.op = "refreshFailed"
    /\ last.args = <<FALSE>>
    /\ last.delivered # {}

\* C3: a single API.request call fetches the endpoint at most twice and
\* attempts at most one refresh, also when every answer is 401.
C3_AtMostTwoFetches == req.fetches <= 2 /\ req.refreshes <= 1

\* C4: once the request retried after a refresh has received 401 again and
\* that answer has been handled, API.request has failed with an authentication
\* error and the token store is fully cleared.
C4_SecondUnauthorizedIsTerminal ==
    (last.op = "apiBody401" /\ req.got401 >= 2)
    => /\ req.pc = "done"
       /\ req.out \in {"Authentication failed", "Authentication required"}
       /\ StoreEmpty

\* C5: the request retried after a 401 carries the access token obtained by
\* the refresh, not the token that was rejected.
C5_RetryCarriesNewToken ==
    (last.op = "apiBody401" /\ req.pc = "fetch") => req.bearer # req.rejected

\* C6: when the store was cleared or replaced while a refresh was in flight,
\* the completion of that refresh, successful or failed, leaves memory, durable
\* storage and the timer as they are.
C6_StaleResultDiscarded ==
    [][\A p \in perf :
          (p.stale /\ last'.op \in {"refreshOk", "refreshFailed"}
                   /\ \A q \in perf' : q.id # p.id)
          => UNCHANGED <<accessToken, refreshToken, sessionData, user, storage,
                         refreshTimer, timers>>]_vars

\* C8: after a successful refresh, memory and durable storage both hold the
\* access token and the refresh token of the response, a refresh timer is
\* scheduled for the new access token (when it has an exp still ahead), and the
\* coordinator is not refreshing.
C8_SuccessStoresResponse ==
    last.op = "refreshOk"
    => /\ accessToken = last.args[2]
       /\ ReadString(storage.accessToken) = last.args[2]
       /\ refreshToken = last.args[3]
       /\ ReadString(storage.refreshToken) = last.args[3]
       /\ (HasExpInfo(accessToken) /\ ~isExpired(accessToken)
           => \E t \in timers : t.id = refreshTimer
                                /\ t.due = now + timeUntilRefresh(accessToken))
       /\ ~isRefreshing

\* C9: after forceRefresh() was called with a refresh token held, a refresh
\* request is in flight: the one it issued, or the one it joined.
C9_ForceRefreshIssuesRequest ==
    (last.op = "forceRefresh" /\ refreshToken # Null)
    => isRefreshing /\ Cardinality(perf) = 1

\* C10: after setTokens with an access token whose exp is readable (and a
\* refresh token to refresh with), a timer is pending for exp minus the
\* buffer; when that instant is already past, a refresh is under way or due
\* within the one-second minimum delay.
C10_ScheduledOrImmediate ==
    (last.op = "setTokens" /\ HasExpInfo(accessToken) /\ refreshToken # Null)
    => IF JwtExp[accessToken] * 1000 - refreshBuffer > now
       THEN \E t \in timers : t.due = JwtExp[accessToken] * 1000 - refreshBuffer
       ELSE isRefreshing \/ \E t \in timers : t.due <= now + 1000

\* C11: after clearTokens() or destroy(), from any prior state, the access
\* token, refresh token, session data and user are absent in memory and in
\* durable storage, and no refresh timeout is pending.
C11_ClearLeavesNothing ==
    last.op \in {"clearTokens", "destroy"}
    => StoreEmpty /\ timers = {} /\ refreshTimer = Null

\* destroy has just run on a store that held tokens and a pending timeout
C11_Witness ==
    /\ last.op = "destroy"
    /\ last.args = <<TRUE>>
    /\ storage = EmptyStorage

\* C12: after setTokens(access, refresh, session, user), from any prior state
\* and for any arguments (an absent refresh token included), memory holds
\* exactly the four given values and loading from durable storage gives back
\* exactly those four values.
C12_SetThenLoadRoundTrip ==
    last.op = "setTokens"
    => /\ <<accessToken, refreshToken, sessionData, user>> = last.args
       /\ loadTokensFromStorage(storage)
            = [accessToken |-> last.args[1], refreshToken |-> last.args[2],
               sessionData |-> last.args[3], user |-> last.args[4]]

\* C13: with two tabs sharing localStorage, once every storage event has been
\* handled and no refresh is in flight, each tab's four in-memory fields equal
\* what localStorage holds (the last write has won in both tabs).
Quiescent == \A t \in Tabs : events[t] = {} /\ ~tabs[t].isRefreshing
C13_TabsConverge ==
    Quiescent => \A t \in Tabs : TabMemory(t) = loadTokensFromStorage(storage)

\* C14: refreshes requested through API.refreshToken() are coalesced with
\* each other and with those of the TokenManager: at most one refresh request
\* is on the network at any time.
C14_ApiRefreshCoalesced == RefreshRoundTrips <= 1

\* C15: on a 401, API.request attempts a refresh only if the endpoint does not
\* start with /auth/ and an access token and a refresh token are both held;
\* in every other 401 case no refresh is attempted, the session is cleared
\* and an authentication error reaches the caller.
C15_RefreshOnlyWhenAllowed ==
    last.op = "apiBody401"
    => LET allowed == ~last.args[1] /\ last.args[2] /\ last.args[3] IN
       /\ allowed <=> (req.pc = "fetch" /\ req.refreshes = last.args[4] + 1)
       /\ ~allowed => /\ req.refreshes = last.args[4]
                      /\ perf = {}
                      /\ StoreEmpty
                      /\ req.pc = "done"
                      /\ req.out \in {"Authentication failed", "Authentication required"}

\* a 401 on a non-auth endpoint with an access token but no refresh token held
C15_Witness ==
    /\ last.op = "apiBody401"
    /\ last.args[1] = FALSE /\ last.args[2] /\ ~last.args[3]
    /\ req.out = "Authentication failed"
    /\ StoreEmpty

\* C16: a response with a non-401 error status (403, 404, 429, 500 or another
\* non-2xx) makes API.request raise the error of that response, leaving the
\* token store as it is and sending no refresh request and no retry.
C16_HttpErrorLeavesStore ==
    [][(last'.op = "apiResponse" /\ last'.res = "httpError")
       => /\ UNCHANGED <<accessToken, refreshToken, sessionData, user, storage,
                         refreshTimer, timers>>
          /\ req'.pc = "done"
          /\ req'.out = HttpErrorMessage(last'.args[1], last'.args[2])
          /\ req'.fetches = req.fetches /\ req'.refreshes = req.refreshes]_vars

\* C17: the error of a non-2xx, non-401 response carries the message of the
\* server when the body has one, and otherwise (a body without message, or a
\* body that is not JSON) the default of its status.
C17_MessageOrStatusDefault ==
    (last.op = "apiResponse" /\ last.res = "httpError" /\ last.args[3] = 1)
    => req.out = IF last.args[2] = "error" THEN ServerMessage
                 ELSE StatusDefault(last.args[1])

\* C18: API.batch never raises: it returns an array as long as its input,
\* whose entry i reports the success or the error of request i, in order; a
\* request that fails does not keep the later ones from being sent.
C18_BatchReportsEach ==
    /\ batch.st # "raised"
    /\ Len(batch.results) <= Len(batch.input)
    /\ batch.st = "done" => Len(batch.results) = Len(batch.input)
    /\ batch.st = "running" => /\ Len(batch.results) < Len(batch.input)
                               /\ req.pc # "idle"
                               /\ req.auth = batch.input[Len(batch.results) + 1]
    /\ \A i \in 1..Len(batch.results) :
          /\ batch.results[i].endpoint = batch.input[i]
          /\ batch.results[i].success = (batch.results[i].out = "ok")

\* a batch of two has returned: the first request failed, the second succeeded
C18_Witness ==
    /\ batch.st = "done"
    /\ Len(batch.results) = 2
    /\ ~batch.results[1].success
    /\ batch.results[2].success

\* C19: across any sequence of startAuthorizationFlow and
\* exchangeCodeForTokens calls, rejected and failed exchanges included, a
\* code verifier is sent in at most one token request.
C19_VerifierSentOnce == \A k \in 1..MaxFlows : oauth.sent[k] <= 1

\* C20: in the state a successful exchangeCodeForTokens leaves, the new
\* tokens are stored (memory and localStorage) and the PKCE data (verifier,
\* challenge, state, nonce) is gone from memory and from sessionStorage.
C20_ExchangeConsumesPkce ==
    last.op = "exchangeOk"
    => /\ oauth.tokens = last.args[2]
       /\ oauth.tokensItem = JSONstringifyTokens(last.args[2])
       /\ oauth.pkceData = NoPkce
       /\ oauth.pkceItem = NoItem

\* the exchange that sent code verifier 1 has just succeeded
C20_Witness ==
    /\ last.op = "exchangeOk"
    /\ last.args[1] = 1
    /\ oauth.tokens.accessToken # Null
    /\ oauth.issued = 1

\* C21: a token request is sent only with a code verifier that matches the
\* stored code challenge; an exchange with a tampered verifier is rejected
\* before anything is sent.
C21_TamperedVerifierNotSent ==
    (last.op = "exchangeCodeForTokens" /\ last.res = "fetch")
    => PkceMatches(oauth.pkceData)

\* C22: when a flow is abandoned (clearTokens or logout of the OAuth2Client,
\* or a new startAuthorizationFlow that fails), no PKCE data is left in
\* memory or in sessionStorage, so that an exchange would be refused for
\* missing PKCE data.
C22_AbandonedFlowLeavesNoPkce ==
    (\/ last.op \in {"oauthClearTokens", "oauthLogout"}
     \/ (last.op = "authorizeResponse" /\ last.res = "failed"))
    => oauth.pkceData = NoPkce /\ oauth.pkceItem = NoItem

\* the characters A-Z a-z 0-9 - . _ ~
Unreserved == {charset[i] : i \in 1..Len(charset)}
AllUnreserved(str) == \A i \in 1..Len(str) : str[i] \in Unreserved

\* C23: for every valid verifier v and each method m of S256 and plain,
\* verifyCodeChallenge(v, generateCodeChallenge(v, m), m) is true.
C23_ChallengeVerifies ==
    (pk.op = "challenge" /\ validateCodeVerifier(pk.verifier).valid)
    => ~pk.threw /\ pk.verified

\* an S256 challenge of a valid verifier has been made and verified
C23_Witness ==
    /\ pk.op = "challenge"
    /\ pk.method = "S256"
    /\ Len(pk.verifier) = 43
    /\ validateCodeVerifier(pk.verifier).valid
    /\ Len(pk.challenge) = 43
    /\ pk.challenge # pk.verifier

\* C24: validateCodeVerifier reports valid exactly when the length is from 43
\* to 128 and every character is unreserved, and it gives a warning exactly
\* when the length is from 43 to 63.
C24_ValidateVerifierShape ==
    pk.op = "validate"
    => /\ pk.validation.valid
            <=> /\ Len(pk.verifier) >= 43
                /\ Len(pk.verifier) <= 128
                /\ AllUnreserved(pk.verifier)
       /\ pk.validation.warnings # <<>>
            <=> (Len(pk.verifier) >= 43 /\ Len(pk.verifier) < 64)

\* a verifier of 43 unreserved characters was accepted with a warning
C24_Witness ==
    /\ pk.op = "validate"
    /\ Len(pk.verifier) = 43
    /\ pk.validation.valid
    /\ pk.validation.warnings # <<>>

\* C25: generateCodeVerifier(length) fails for every length outside 43..128;
\* for a length inside, whatever the random source gives, it returns a string
\* of that length made of unreserved characters, which validateCodeVerifier
\* accepts.
C25_GeneratedVerifierValid ==
    pk.op = "generate"
    => IF pk.length < 43 \/ pk.length > 128
       THEN pk.threw
       ELSE /\ ~pk.threw
            /\ Len(pk.verifier) = pk.length
            /\ AllUnreserved(pk.verifier)
            /\ pk.validation.valid

\* a verifier of 128 characters was generated from random bytes that are not
\* all below the length of the charset
C25_Witness ==
    /\ pk.op = "generate"
    /\ pk.length = 128
    /\ pk.method = "crypto"
    /\ ~pk.threw
    /\ \E i \in 1..Len(pk.verifier) : pk.verifier[i] = 126
    /\ pk.validation.valid

ExpiryErrors == {"Token has expired", "Token has no expiration claim"}
HasError(r, e) == \E i \in 1..Len(r.errors) : r.errors[i] = e
HasWarning(r, w) == \E i \in 1..Len(r.warnings) : r.warnings[i] = w

\* C26: validateJWT reports valid = false with an error about the expiry for
\* every token whose exp is at or before the current time; for a token with
\* now < exp <= now + 300 it gives the 'expires soon' warning, which adds no
\* error: the token is valid unless another check found an error.
C26_ExpiryErrorAndWarning ==
    (jwt.op = "validateJWT" /\ jwt.token.kind = "jwt")
    => LET exp == jwt.token.payload.exp
           s == NowSeconds(jwt.at)
           r == jwt.result
       IN /\ exp <= s
               => ~r.valid /\ \E e \in ExpiryErrors : HasError(r, e)
          /\ (exp # 0 /\ exp <= s) => HasError(r, "Token has expired")
          /\ (s < exp /\ exp <= s + 300)
               => /\ HasWarning(r, "Token expires soon (less than 5 minutes)")
                  /\ \A e \in ExpiryErrors : ~HasError(r, e)
                  /\ r.valid <=> /\ Len(missingClaims(jwt.token.payload)) = 0
                                  /\ ~(jwt.token.payload.nbf > s)

\* a token expiring within five minutes was found valid with the warning
C26_Witness ==
    /\ jwt.op = "validateJWT"
    /\ jwt.token.kind = "jwt"
    /\ jwt.token.payload.exp = NowSeconds(jwt.at) + 300
    /\ jwt.result.valid
    /\ HasWarning(jwt.result, "Token expires soon (less than 5 minutes)")

\* the token with the advisory claims as the checks want them
WithoutAdvisory(token) ==
    [token EXCEPT !.payload.role = "admin", !.payload.scopes = "array",
                  !.payload.sessionId = TRUE, !.payload.jti = TRUE]

\* C27: the result of validateJWT is valid exactly when its error list is
\* empty, and the advisory checks (role, scopes, sessionId, jti) only add
\* warnings: the errors and valid are those of the same token with nothing
\* for the advisory checks to report.
C27_AdvisoryChecksOnlyWarn ==
    jwt.op = "validateJWT"
    => /\ jwt.result.valid <=> (jwt.result.errors = <<>>)
       /\ jwt.result.errors = validateJWT(WithoutAdvisory(jwt.token), jwt.at).errors
       /\ jwt.result.valid = validateJWT(WithoutAdvisory(jwt.token), jwt.at).valid

\* a token on which all four advisory checks report was found valid
C27_Witness ==
    /\ jwt.op = "validateJWT"
    /\ jwt.token.kind = "jwt"
    /\ jwt.token.payload.role = "guest"
    /\ jwt.token.payload.scopes = "string"
    /\ ~jwt.token.payload.sessionId
    /\ ~jwt.token.payload.jti
    /\ Len(jwt.result.warnings) = 4
    /\ jwt.result.valid

\* C28: in every reachable state isAuthenticated() is true exactly when an
\* access token and a user are both held.
C28_AuthenticatedIffTokenAndUser ==
    isAuthenticated <=> (accessToken # Null /\ user # Null)

\* an access token is held without a user, and isAuthenticated() is false
C28_Witness ==
    /\ accessToken # Null
    /\ user = Null
    /\ ~isAuthenticated

\* C29: after API.logout() or TokenManager.logout() has completed, the token
\* store is cleared in memory and in storage, with no refresh timeout left,
\* whether the logout request succeeded, was rejected or failed at transport
\* level; and the logout call returned instead of throwing.
C29_LogoutAlwaysClears ==
    (last.op \in {"apiLogout", "tmLogout"} /\ last.res # "fetch")
    => /\ StoreEmpty
       /\ refreshTimer = Null
       /\ last.res = "returned"

\* API.logout() completed after its request failed at transport level while a
\* token was held
C29_Witness ==
    /\ last.op = "apiLogout"
    /\ last.res = "returned"
    /\ last.args = <<"Network error: Unable to connect to server", TRUE>>
    /\ StoreEmpty

\* expires_in of the response that carried the access token a
ExpiresInOf(a) ==
    (CHOOSE x \in {[access_token |-> y.access_token, expires_in |-> y.expires_in] :
                      y \in TokenResponses \cup RefreshResponses} :
        x.access_token = a).expires_in

\* C30: in every reachable state of the OAuth2Client, when an access token is
\* held expiresAt is set and is the time at which the response carrying that
\* token arrived plus that response's expires_in: the exchange and the refresh
\* assign both in one step.
C30_ExpiresAtOfHeldToken ==
    oauth.tokens.accessToken # Null
    => /\ oauth.tokens.expiresAt # Null
       /\ \E k \in 0..MaxTicks :
             /\ StartNow + k * TickMs <= now
             /\ oauth.tokens.expiresAt
                   = StartNow + k * TickMs + ExpiresInOf(oauth.tokens.accessToken) * 1000

\* a refresh has replaced the access token of an exchange, after the clock
\* has advanced, and expiresAt is that of the new token
C30_Witness ==
    /\ last.op = "refreshOk"
    /\ last.args = <<1, 3>>
    /\ now = StartNow + TickMs
    /\ oauth.tokens.accessToken = 3
    /\ oauth.tokens.expiresAt = now + 1800 * 1000

\* C31: a refresh that has started leaves the refreshing state once its
\* request is answered or fails: isRefreshing is false again and no promise
\* is retained; and whenever isRefreshing is false no promise and no run is
\* left for a later refreshToken call to await.
C31_RefreshingEnds ==
    /\ [](~isRefreshing => (refreshPromise = Null /\ perf = {}))
    /\ (isRefreshing ~> (~isRefreshing /\ refreshPromise = Null))

\* a refresh has just succeeded, and a refresh token is held for the next one
C31_Witness ==
    /\ last.op = "refreshOk"
    /\ ~isRefreshing
    /\ refreshPromise = Null
    /\ refreshToken # Null

\* C34: a refreshToken() call made while no refresh token is held and no
\* refresh is in flight fails with 'No refresh token available'.
C34_NoTokenError ==
    (last.op = "refreshToken" /\ refreshToken = Null /\ ~isRefreshing)
    => /\ last.delivered # {}
       /\ \A d \in last.delivered : d[2] = <<"err", "No refresh token available">>

\* C32: one apiRequest call fetches the endpoint at most twice and starts at
\* most one refresh on a 401; when that refresh fails, or the second response
\* is not OK (whatever its status) or does not arrive, the tokens are cleared
\* in memory and in localStorage and the call fails with the authentication
\* error.
C32_OneRetryThenAuthFailure ==
    /\ oauth.api.fetches <= 2
    /\ oauth.api.refreshes <= 1
    /\ (\/ last.op = "oauthApi401Refresh" /\ last.res = "failed"
        \/ last.op = "oauthApiRetry" /\ (last.args[1] < 200 \/ last.args[1] > 299))
       => /\ oauth.tokens = NoTokens
          /\ oauth.tokensItem = NoItem
          /\ oauth.api.pc = "done"
          /\ oauth.api.out = AuthenticationFailed

\* the second fetch, made after a successful refresh, was answered 500
C32_Witness ==
    /\ last.op = "oauthApiRetry"
    /\ last.args = <<500>>
    /\ oauth.api.fetches = 2
    /\ oauth.api.refreshes = 1
    /\ oauth.tokens = NoTokens
    /\ oauth.api.out = AuthenticationFailed

\* C33: every failing path of refreshAccessToken (no refresh token held, the
\* server answers success false, transport or parse failure) ends with the
\* four token fields null and the item oauth2_tokens removed, and its caller
\* receives the error.
C33_RefreshFailureClears ==
    (\/ last.op = "refreshFailed"
     \/ last.op = "refreshAccessToken" /\ last.res # "fetch")
    => /\ oauth.tokens = NoTokens
       /\ oauth.tokensItem = NoItem
       /\ \E d \in last.delivered : d[2][1] = "err"

\* a refresh request was rejected while it was the only one in flight
C33_Witness ==
    /\ last.op = "refreshFailed"
    /\ last.res = "rejected"
    /\ oauth.refreshing = 0
    /\ oauth.tokens = NoTokens
    /\ oauth.tokensItem = NoItem

\* C35: an exchangeCodeForTokens call made while neither this.pkceData nor
\* the sessionStorage item gives a state and a code verifier fails with
\* 'Missing PKCE data', sends no token request and leaves the tokens in
\* memory and in localStorage as they were.
C35_ExchangeWithoutPkce ==
    [][(/\ last'.op = "exchangeCodeForTokens"
        /\ oauth.pkceItem = NoItem
        /\ (oauth.pkceData.state = Null \/ oauth.pkceData.codeVerifier = Null))
       => /\ last'.res = "Missing PKCE data"
          /\ oauth'.exchanges = oauth.exchanges
          /\ oauth'.sent = oauth.sent
          /\ oauth'.tokens = oauth.tokens
          /\ oauth'.tokensItem = oauth.tokensItem]_vars

\* a second exchange was refused while the tokens of the first are held
C35_Witness ==
    /\ last.op = "exchangeCodeForTokens"
    /\ last.res = "Missing PKCE data"
    /\ oauth.exchanged = 1
    /\ oauth.exchanges = {}
    /\ oauth.issued = 1
    /\ oauth.authorizing = 0
    /\ oauth.tokens.accessToken # Null
    /\ oauth.tokensItem # NoItem

\* C36: in every reachable state of a tab, a pending refresh timer implies that
\* the tab holds an access token in memory, also after another tab removed
\* the tokens and the removal was picked up through the storage listener.
C36_TimerImpliesToken ==
    \A t \in Tabs : tabs[t].timers # {} => tabs[t].accessToken # Null

\* C37: a tab that has adopted an access token through the storage listener
\* has, once the listener has run, the refresh timer pending that
\* scheduleRefreshCheck sets for that token (expiry minus the buffer).
C37_AdoptionSchedules ==
    \A t \in Tabs :
        (/\ last.op = "tabStorageEvent"
         /\ last.args[1] = t
         /\ tabs[t].accessToken # Null
         /\ scheduleRefreshCheck(tabs[t].accessToken, Null, {}).timers # {})
        => \E tm \in tabs[t].timers :
              /\ tm.id = tabs[t].refreshTimer
              /\ tm.due = now + timeUntilRefresh(tabs[t].accessToken)

\* C38: over any sequence of setTokens, successful refreshes, clearTokens and
\* timer firings, at most one refresh timeout is pending at any time, and it
\* is the one whose handle the TokenManager holds: scheduling cancels the
\* previous timeout first.
C38_OneTimer ==
    /\ Cardinality(timers) <= 1
    /\ \A t \in timers : t.id = refreshTimer

\* a refresh has succeeded after the clock advanced, and the only timeout
\* pending is the one scheduled for the new access token
C38_Witness ==
    /\ last.op = "refreshOk"
    /\ now > StartNow
    /\ accessToken = last.args[2]
    /\ timers = {[id |-> refreshTimer, due |-> now + timeUntilRefresh(accessToken)]}

\* C39: a successful OAuth2Client.refreshAccessToken changes only accessToken
\* and expiresAt: refreshToken, idToken and the rest of the client keep their
\* values, and afterwards the item 'oauth2_tokens' is the in-memory token set.
C39_RefreshFrame ==
    [][(last'.op = "refreshOk" /\ oauth'.refreshing < oauth.refreshing)
       => /\ oauth'.tokens.refreshToken = oauth.tokens.refreshToken
          /\ oauth'.tokens.idToken = oauth.tokens.idToken
          /\ [oauth' EXCEPT !.tokens = oauth.tokens,
                            !.tokensItem = oauth.tokensItem,
                            !.refreshing = oauth.refreshing] = oauth
          /\ oauth'.tokensItem # NoItem
          /\ JSONparseTokens(oauth'.tokensItem) = oauth'.tokens]_vars

\* a refresh has replaced the access token of a client that holds a refresh
\* token and an ID token, and the item holds the new token set
C39_Witness ==
    /\ last.op = "refreshOk"
    /\ last.args[1] # last.args[2]
    /\ oauth.tokens.accessToken = last.args[2]
    /\ oauth.tokens.refreshToken # Null
    /\ oauth.tokens.idToken # Null
    /\ oauth.tokensItem = JSONstringifyTokens(oauth.tokens)

\* C40: getTokenStatus and validateJWT apply one policy to the required
\* claims: getTokenStatus reports 'valid' or 'expiring_soon' only for a token
\* that validateJWT reports as valid, so a token missing iss, sub, aud, iat or
\* exp is never reported as 'valid'.
C40_StatusFollowsValidation ==
    jwt.op = "getTokenStatus"
    => /\ last.res \in {"valid", "expiring_soon"} => jwt.result.valid
       /\ (jwt.token.kind = "jwt" /\ Len(missingClaims(jwt.token.payload)) > 0)
          => last.res # "valid"
====
